---- MODULE Spec2Model ----
(***************************************************************************)
(* A model of the search core of planner_research: the bucket priority     *)
(* queues of include/bucket_pq.hpp, the sequential SAS+ engines of         *)
(* src/sas/sas_search.cpp, the bidirectional engine of                     *)
(* src/sas/bi_search.cpp and the worker loop of                            *)
(* src/sas/parallel_SOC/parallel_search.cpp.                               *)
(*                                                                         *)
(* Each subsystem has its own specification (SpecPack, SpecPQ, SpecSeq,    *)
(* SpecBi, SpecPar), and so has each function that is driven on its own;   *)
(* the variables of the other subsystems stay at their idle values.        *)
(***************************************************************************)
EXTENDS Integers, Sequences, FiniteSets, TLC

VARIABLES
    pk,        \* pack/unpack harness: the inputs and the packed key
    qkind,     \* which queue class the queue harness drives
    q2,        \* a TwoLevelBucketPQ object
    q1,        \* a BucketPQ object
    qcall,     \* the last call made on the queue and what it returned
    T,         \* sequential engines: the task (sas::Task)
    hfn,       \* the heuristic, as the table of its values
    params,    \* sas::Params
    engine,    \* "astar" or "gbfs"
    R,         \* sas::Result (nodes, solved, plan, plan_cost, stats)
    meta,      \* std::vector<MetaI>
    open,      \* the open list of astar
    open_pref, \* the preferred open list of gbfs
    open_norm, \* the not-preferred open list of gbfs
    pc,        \* where the engine stands
    cur_u,     \* the node being expanded (u)
    cur_a,     \* the operator index of the successor loop (a)
    meta_fwd,  \* bidirectional engine: std::vector<MetaF>
    meta_bwd,  \* std::vector<MetaB>
    open_fwd,  \* the forward open list
    open_bwd,  \* the backward open list
    back_nodes,           \* std::vector<BackNode>
    meeting,              \* have_meeting, best_cost, best_f, best_b
    expand_forward_turn,  \* whose turn it is
    su_ok,     \* whether the reference su still refers to a live element
    ids,            \* parallel engine: IdAllocator::next_
    closed,         \* ClosedTable: state -> ClosedEntry
    store,          \* StateStore: id -> state
    shared_open,    \* SharedOpen
    done,           \* std::atomic<bool> done
    goal_node,      \* std::atomic<uint64_t> goal_node
    active_workrs,  \* std::atomic<uint32_t> active_workrs
    wk,        \* per worker: its position and its locals
    fcall,     \* functions driven on their own: the last call and what it returned
    fhist,     \* the arguments of the calls so far
    lk,        \* a lock driven on its own: SpinLock::flag, TicketLock::next_ and cur_
    th,        \* per thread calling the lock: its position and its ticket
    budget     \* the globals of the CPU budget, and the CPU time of the process

pkVars == <<pk>>

pqVars == <<qkind, q2, q1, qcall>>

seqVars == <<T, hfn, params, engine, R, meta, open, open_pref, open_norm, pc, cur_u, cur_a>>

\* the variables of the bidirectional engine besides those it shares with
\* the sequential engines (T, hfn, params, engine, R, pc, cur_u, cur_a)
biOnly == <<meta_fwd, meta_bwd, open_fwd, open_bwd, back_nodes, meeting, expand_forward_turn, su_ok>>

\* the variables of the sequential engines the bidirectional engine leaves alone
seqOnly == <<meta, open, open_pref, open_norm>>

\* the variables of the parallel engine besides T, hfn, params, engine, R, pc
parOnly == <<ids, closed, store, shared_open, done, goal_node, active_workrs, wk>>

lockVars == <<lk, th>>

unitVars == <<fcall, fhist, lockVars, budget>>

vars == <<pk, qkind, q2, q1, qcall,
          T, hfn, params, engine, R, meta, open, open_pref, open_norm, pc, cur_u, cur_a,
          meta_fwd, meta_bwd, open_fwd, open_bwd, back_nodes, meeting, expand_forward_turn, su_ok,
          ids, closed, store, shared_open, done, goal_node, active_workrs, wk,
          fcall, fhist, lk, th, budget>>

\* the variables a subsystem leaves alone
notPk == <<pqVars, seqVars, biOnly, parOnly, unitVars>>

notPQ == <<pkVars, seqVars, biOnly, parOnly, unitVars>>

notSeq == <<pkVars, pqVars, biOnly, parOnly, unitVars>>

notBi == <<pkVars, pqVars, seqOnly, parOnly, unitVars>>

notPar == <<pkVars, pqVars, seqOnly, biOnly, cur_u, cur_a, unitVars>>

\* the CPU budget is not driven
NoBudget == [kind |-> "none"]

BudgetIdle == budget = NoBudget

(***************************************************************************)
(* Small helpers.                                                          *)
(***************************************************************************)
Min(S) == CHOOSE x \in S : \A y \in S : x <= y

Max(S) == CHOOSE x \in S : \A y \in S : y <= x

MinOr(S, d) == IF S = {} THEN d ELSE Min(S)

Range(s) == {s[i] : i \in DOMAIN s}

Front(s) == SubSeq(s, 1, Len(s) - 1)

\* element i (0-based) of a std::vector / DynamicArray kept as a sequence
At0(s, i) == s[i + 1]

(***************************************************************************)
(* bucket_pq.hpp: packed keys.  A UKey is a 32-bit unsigned integer; it is *)
(* kept as its two 16-bit halves <<high, low>>, so that the arithmetic is  *)
(* exact: (UKey(f) << 16) keeps the low 16 bits of f in the high half, and *)
(* the order of two keys is the lexicographic order of their halves.       *)
(***************************************************************************)
H_BITS == 16

TwoPowH == 65536

H_MASK == TwoPowH - 1

pack_fh_asc(f, h) ==
    LET f1 == IF f < 0 THEN 0 ELSE f
        h1 == IF h < 0 THEN 0 ELSE h
    IN  <<f1 % TwoPowH, h1 % TwoPowH>>

unpack_f(key) == key[1]

unpack_h(key) == key[2]

\* key a < key b, as unsigned 32-bit integers
KeyLess(a, b) == a[1] < b[1] \/ (a[1] = b[1] /\ a[2] < b[2])

KeyLeq(a, b) == a = b \/ KeyLess(a, b)

\* UINT32_MAX as a key: key_of of an absent value
KEY_MAX == <<H_MASK, H_MASK>>

(***************************************************************************)
(* bucket_pq.hpp: DynamicArray<T>.  resize() value-initialises the new     *)
(* elements, so an array is kept as its size_ together with the elements   *)
(* that differ from T(): data_ is a function on the indexes (0-based) of   *)
(* those elements.  Buckets (DynamicArray<Value>) are short and are kept   *)
(* as plain sequences.                                                     *)
(***************************************************************************)
DA_New == [size_ |-> 0, data_ |-> [j \in {} |-> 0]]

DA_at(a, i, dflt) == IF i \in DOMAIN a.data_ THEN a.data_[i] ELSE dflt

DA_put(a, i, x, dflt) ==
    [a EXCEPT !.data_ =
        IF x = dflt
        THEN [j \in (DOMAIN a.data_) \ {i} |-> a.data_[j]]
        ELSE [j \in (DOMAIN a.data_) \cup {i} |-> IF j = i THEN x ELSE a.data_[j]]]

DA_resize(a, n) ==
    [size_ |-> n,
     data_ |-> [j \in {k \in DOMAIN a.data_ : k < n} |-> a.data_[j]]]

\* if (i >= a.size()) a.resize(i + 1)
DA_ensure(a, i) == IF i >= a.size_ THEN DA_resize(a, i + 1) ELSE a

(***************************************************************************)
(* TwoLevelBucketPQ::Bitset.  A 64-bit word is the set of its set bit      *)
(* positions (0 is the empty set, ctz is the least element).  min_word_    *)
(* is a uint32 whose sentinel UINT32_MAX is above every word index; the    *)
(* sentinel is represented by NO_WORD, the largest integer available, and  *)
(* is only ever compared with word indexes.                                *)
(***************************************************************************)
WORD_BITS == 64

NO_WORD == 2147483647

Bitset0 == [w_ |-> DA_New, min_word_ |-> NO_WORD]

BS_word(b, wi) == DA_at(b.w_, wi, {})

BS_any(b) == b.min_word_ # NO_WORD

BS_test(b, i) ==
    LET wi == i \div WORD_BITS
        bi == i % WORD_BITS
    IN  IF wi >= b.w_.size_ THEN FALSE ELSE bi \in BS_word(b, wi)

\* fault variant of BS_set: the min_word_ hint is not lowered when a bit is
\* set in a word below it
BS_set_KeepsHint(b, i) ==
    LET wi == i \div WORD_BITS
        bi == i % WORD_BITS
        w1 == DA_ensure(b.w_, wi)
        before == DA_at(w1, wi, {})
        m2 == IF b.min_word_ = NO_WORD THEN wi ELSE b.min_word_
    IN  [w_ |-> DA_put(w1, wi, before \cup {bi}, {}), min_word_ |-> m2]

BS_set(b, i) ==
    LET wi == i \div WORD_BITS
        bi == i % WORD_BITS
        w1 == DA_ensure(b.w_, wi)
        before == DA_at(w1, wi, {})
        m1 == IF before = {} /\ wi < b.min_word_ THEN wi ELSE b.min_word_
        m2 == IF m1 = NO_WORD THEN wi ELSE m1
    IN  [w_ |-> DA_put(w1, wi, before \cup {bi}, {}), min_word_ |-> m2]

\* the loop "while (wi < n && w_[wi] == 0) ++wi" from wi = min_word_
BS_advance_min_word_(b) ==
    IF b.w_.size_ = 0 THEN [b EXCEPT !.min_word_ = NO_WORD]
    ELSE [b EXCEPT !.min_word_ =
            MinOr({wi \in DOMAIN b.w_.data_ :
                      wi >= b.min_word_ /\ wi < b.w_.size_}, NO_WORD)]

BS_clear(b, i) ==
    LET wi == i \div WORD_BITS
        bi == i % WORD_BITS
        word == BS_word(b, wi) \ {bi}
        b1 == [b EXCEPT !.w_ = DA_put(b.w_, wi, word, {})]
    IN  IF wi >= b.w_.size_ THEN b
        ELSE IF word = {} /\ wi = b.min_word_ THEN BS_advance_min_word_(b1)
        ELSE b1

\* find_first trips assert(word != 0) (or reads past the words)
BS_find_first_asserts(b) ==
    b.min_word_ # NO_WORD /\ BS_word(b, b.min_word_) = {}

\* -1 when min_word_ is the sentinel; ASSERT_TRIP stands for the failed assert
ASSERT_TRIP == -2

\* fault variant of BS_find_first: the highest set bit of the word (clz for ctz)
BS_find_first_HighBit(b) ==
    IF b.min_word_ = NO_WORD THEN -1
    ELSE IF BS_find_first_asserts(b) THEN ASSERT_TRIP
    ELSE b.min_word_ * WORD_BITS + Max(BS_word(b, b.min_word_))

BS_find_first(b) ==
    IF b.min_word_ = NO_WORD THEN -1
    ELSE IF BS_find_first_asserts(b) THEN ASSERT_TRIP
    ELSE b.min_word_ * WORD_BITS + Min(BS_word(b, b.min_word_))

BS_ensure_word_for_index(b, i) ==
    [b EXCEPT !.w_ = DA_ensure(b.w_, i \div WORD_BITS)]

\* the set of indexes whose bit is set
BS_bits(b) ==
    UNION {{wi * WORD_BITS + bi : bi \in b.w_.data_[wi]} : wi \in DOMAIN b.w_.data_}

(***************************************************************************)
(* TwoLevelBucketPQ.  An object is the record of its fields                *)
(*   layers_ : DynamicArray<HLayer>, HLayer = [buckets, hbits]             *)
(*   fbits_  : Bitset,  pos_ : DynamicArray<Pos>,  count_                  *)
(* Each method is an operator from the object (and the arguments) to the   *)
(* object after the call.                                                  *)
(***************************************************************************)
Pos0 == [f |-> 0, h |-> 0, idx |-> 0, present |-> FALSE]

HLayer0 == [buckets |-> DA_New, hbits |-> Bitset0]

TwoLevelBucketPQ0 ==
    [layers_ |-> DA_New, fbits_ |-> Bitset0, pos_ |-> DA_New, count_ |-> 0]

TL_pos(q, v) == DA_at(q.pos_, v, Pos0)

TL_layer(q, f) == DA_at(q.layers_, f, HLayer0)

TL_bucket(q, f, h) == DA_at(TL_layer(q, f).buckets, h, <<>>)

TL_empty(q) == q.count_ = 0

TL_size(q) == q.count_

TL_contains(q, v) == v < q.pos_.size_ /\ TL_pos(q, v).present

TL_key_of(q, v) ==
    IF ~TL_contains(q, v) THEN KEY_MAX
    ELSE <<TL_pos(q, v).f, TL_pos(q, v).h % TwoPowH>>

HL_ensure_h(L, h) ==
    [buckets |-> DA_ensure(L.buckets, h),
     hbits   |-> BS_ensure_word_for_index(L.hbits, h)]

TL_ensure_pos_(q, v) == [q EXCEPT !.pos_ = DA_ensure(@, v)]

TL_ensure_f_(q, f) ==
    [q EXCEPT !.layers_ = DA_ensure(@, f),
              !.fbits_  = BS_ensure_word_for_index(@, f)]

TL_ensure_h_(q, f, h) ==
    [q EXCEPT !.layers_ = DA_put(@, f, HL_ensure_h(DA_at(@, f, HLayer0), h), HLayer0)]

\* push v on bucket (f, h) and set the two bits: the tail of insert and of change_key_
TL_push_(q, v, f, h) ==
    LET L  == TL_layer(q, f)
        b  == DA_at(L.buckets, h, <<>>)
        p  == [f |-> f, h |-> h, idx |-> Len(b), present |-> TRUE]
        L1 == [buckets |-> DA_put(L.buckets, h, Append(b, v), <<>>),
               hbits   |-> IF ~BS_test(L.hbits, h) THEN BS_set(L.hbits, h) ELSE L.hbits]
    IN  [q EXCEPT !.layers_ = DA_put(@, f, L1, HLayer0),
                  !.pos_    = DA_put(@, v, p, Pos0),
                  !.fbits_  = IF ~BS_test(@, f) THEN BS_set(@, f) ELSE @]

\* precondition (assert): v is not present
TL_insert(q, v, k) ==
    LET f  == unpack_f(k)
        h  == unpack_h(k)
        qa == TL_ensure_h_(TL_ensure_f_(TL_ensure_pos_(q, v), f), f, h)
    IN  [TL_push_(qa, v, f, h) EXCEPT !.count_ = @ + 1]

\* fault variant of TL_clear_bits_: the f bit is cleared with the h bit, also
\* when another bucket of the layer is not empty
TL_clear_bits_AlwaysF(L, fbits, f, h) ==
    IF DA_at(L.buckets, h, <<>>) = <<>>
    THEN [L |-> [L EXCEPT !.hbits = BS_clear(L.hbits, h)], fbits |-> BS_clear(fbits, f)]
    ELSE [L |-> L, fbits |-> fbits]

\* after bucket (f, h) lost an element: clear the h bit and then the f bit
TL_clear_bits_(L, fbits, f, h) ==
    IF DA_at(L.buckets, h, <<>>) = <<>>
    THEN LET hb == BS_clear(L.hbits, h)
         IN  [L |-> [L EXCEPT !.hbits = hb],
              fbits |-> IF ~BS_any(hb) THEN BS_clear(fbits, f) ELSE fbits]
    ELSE [L |-> L, fbits |-> fbits]

\* fault variant of TL_unlink_: the relocated element keeps its old index
TL_unlink_StaleIdx(q, v) ==
    LET p     == TL_pos(q, v)
        L     == TL_layer(q, p.f)
        b     == DA_at(L.buckets, p.h, <<>>)
        last  == Len(b) - 1
        moved == At0(b, last)
        b1    == IF p.idx # last THEN [b EXCEPT ![p.idx + 1] = moved] ELSE b
        L1    == [L EXCEPT !.buckets = DA_put(@, p.h, Front(b1), <<>>)]
        cb    == TL_clear_bits_(L1, q.fbits_, p.f, p.h)
    IN  [q EXCEPT !.layers_ = DA_put(@, p.f, cb.L, HLayer0),
                  !.fbits_  = cb.fbits]

\* swap-with-last removal of the element at p.idx of bucket (p.f, p.h)
TL_unlink_(q, v) ==
    LET p     == TL_pos(q, v)
        L     == TL_layer(q, p.f)
        b     == DA_at(L.buckets, p.h, <<>>)
        last  == Len(b) - 1
        moved == At0(b, last)
        b1    == IF p.idx # last THEN [b EXCEPT ![p.idx + 1] = moved] ELSE b
        pos1  == IF p.idx # last
                 THEN DA_put(q.pos_, moved, [TL_pos(q, moved) EXCEPT !.idx = p.idx], Pos0)
                 ELSE q.pos_
        L1    == [L EXCEPT !.buckets = DA_put(@, p.h, Front(b1), <<>>)]
        cb    == TL_clear_bits_(L1, q.fbits_, p.f, p.h)
    IN  [q EXCEPT !.layers_ = DA_put(@, p.f, cb.L, HLayer0),
                  !.fbits_  = cb.fbits,
                  !.pos_    = pos1]

TL_remove(q, v) ==
    IF ~TL_contains(q, v) THEN q
    ELSE LET q1x == TL_unlink_(q, v)
         IN  [q1x EXCEPT !.pos_   = DA_put(@, v, [DA_at(@, v, Pos0) EXCEPT !.present = FALSE], Pos0),
                         !.count_ = @ - 1]

\* fault variant of TL_change_key_: the element is pushed on the bucket of its
\* old h (nh taken from the position instead of the new key)
TL_change_key_OldH(q, v, new_key, allow_increase) ==
    LET nf == unpack_f(new_key)
        p  == TL_pos(q, v)
        nh == p.h
    IN  IF nf = p.f /\ unpack_h(new_key) = p.h THEN q
        ELSE LET qa == TL_unlink_(q, v)
                 qb == TL_ensure_h_(TL_ensure_f_(qa, nf), nf, nh)
             IN  TL_push_(qb, v, nf, nh)

\* preconditions (asserts): v is present; new_key <= old key unless allow_increase
TL_change_key_(q, v, new_key, allow_increase) ==
    LET nf == unpack_f(new_key)
        nh == unpack_h(new_key)
        p  == TL_pos(q, v)
    IN  IF nf = p.f /\ nh = p.h THEN q
        ELSE LET qa == TL_unlink_(q, v)
                 qb == TL_ensure_h_(TL_ensure_f_(qa, nf), nf, nh)
             IN  TL_push_(qb, v, nf, nh)

TL_decrease_key(q, v, new_key) == TL_change_key_(q, v, new_key, FALSE)

TL_increase_key(q, v, new_key) == TL_change_key_(q, v, new_key, TRUE)

\* precondition (assert): count_ > 0.  The result is the object after the
\* call and the returned pair; a tripped assert of find_first shows as
\* v = ASSERT_TRIP with the object unchanged.
TL_extract_min(q) ==
    LET f == BS_find_first(q.fbits_)
        L == TL_layer(q, f)
        h == BS_find_first(L.hbits)
        b == DA_at(L.buckets, h, <<>>)
        v == At0(b, Len(b) - 1)
        L1 == [L EXCEPT !.buckets = DA_put(@, h, Front(b), <<>>)]
        cb == TL_clear_bits_(L1, q.fbits_, f, h)
    IN  IF f < 0 \/ h < 0 \/ b = <<>>
        THEN [q |-> q, v |-> ASSERT_TRIP, key |-> KEY_MAX]
        ELSE [q |-> [q EXCEPT !.layers_ = DA_put(@, f, cb.L, HLayer0),
                              !.fbits_  = cb.fbits,
                              !.pos_    = DA_put(@, v, [DA_at(@, v, Pos0) EXCEPT !.present = FALSE], Pos0),
                              !.count_  = @ - 1],
              v |-> v,
              key |-> <<f, h % TwoPowH>>]

(***************************************************************************)
(* BucketPQ (single level).  Its Key is the 32-bit key used as an index    *)
(* into buckets_; the queue harness gives it keys whose high half is       *)
(* below 2^15, which are the integers KeyInt(k).  The sentinel UINT32_MAX  *)
(* of min_key_ and of Pos::key is represented by NO_KEY.                   *)
(***************************************************************************)
NO_KEY == 2147483647

KeyInt(k) == k[1] * TwoPowH + k[2]

BPos0 == [key |-> NO_KEY, idx |-> 0, present |-> FALSE]

BucketPQ0 == [buckets_ |-> DA_New, pos_ |-> DA_New, min_key_ |-> NO_KEY, count_ |-> 0]

BQ_pos(q, v) == DA_at(q.pos_, v, BPos0)

BQ_bucket(q, k) == DA_at(q.buckets_, k, <<>>)

BQ_empty(q) == q.count_ = 0

BQ_contains(q, v) == v < q.pos_.size_ /\ BQ_pos(q, v).present

BQ_key_of(q, v) == IF ~BQ_contains(q, v) THEN NO_KEY ELSE BQ_pos(q, v).key

\* the scan "for (; i < buckets_.size(); ++i) if (!buckets_[i].empty())"
BQ_advance_min_(q) ==
    IF q.count_ = 0 THEN [q EXCEPT !.min_key_ = NO_KEY]
    ELSE LET i0 == IF q.min_key_ = NO_KEY THEN 0 ELSE q.min_key_
             i  == IF i0 >= q.buckets_.size_ THEN 0 ELSE i0
         IN  [q EXCEPT !.min_key_ =
                 MinOr({j \in DOMAIN q.buckets_.data_ : j >= i /\ j < q.buckets_.size_}, NO_KEY)]

\* precondition (assert): v is not present
BQ_insert(q, v, k) ==
    LET bk == DA_ensure(q.buckets_, k)
        ps == DA_ensure(q.pos_, v)
        b  == DA_at(bk, k, <<>>)
    IN  [buckets_ |-> DA_put(bk, k, Append(b, v), <<>>),
         pos_     |-> DA_put(ps, v, [key |-> k, idx |-> Len(b), present |-> TRUE], BPos0),
         min_key_ |-> IF k < q.min_key_ THEN k ELSE q.min_key_,
         count_   |-> q.count_ + 1]

\* precondition (assert): count_ > 0
BQ_extract_min(q) ==
    LET qa == BQ_advance_min_(q)
        b  == BQ_bucket(qa, qa.min_key_)
        v  == At0(b, Len(b) - 1)
        qb == [qa EXCEPT !.buckets_ = DA_put(@, qa.min_key_, Front(b), <<>>),
                         !.pos_     = DA_put(@, v, [DA_at(@, v, BPos0) EXCEPT !.present = FALSE], BPos0),
                         !.count_   = @ - 1]
    IN  IF b = <<>>
        THEN [q |-> q, v |-> ASSERT_TRIP, key |-> NO_KEY]
        ELSE [q |-> IF Front(b) = <<>> THEN BQ_advance_min_(qb) ELSE qb,
              v |-> v,
              key |-> BQ_pos(q, v).key]

\* swap-with-last removal of v from its bucket
BQ_unlink_(q, v) ==
    LET p     == BQ_pos(q, v)
        b     == BQ_bucket(q, p.key)
        last  == Len(b) - 1
        moved == At0(b, last)
        b1    == IF p.idx # last THEN [b EXCEPT ![p.idx + 1] = moved] ELSE b
    IN  [q EXCEPT !.buckets_ = DA_put(@, p.key, Front(b1), <<>>),
                  !.pos_     = IF p.idx # last
                               THEN DA_put(@, moved, [BQ_pos(q, moved) EXCEPT !.idx = p.idx], BPos0)
                               ELSE @]

BQ_remove(q, v) ==
    IF ~BQ_contains(q, v) THEN q
    ELSE LET p  == BQ_pos(q, v)
             qa == BQ_unlink_(q, v)
             qb == [qa EXCEPT !.pos_   = DA_put(@, v, [p EXCEPT !.present = FALSE], BPos0),
                              !.count_ = @ - 1]
         IN  IF BQ_bucket(qb, p.key) = <<>> /\ p.key = qb.min_key_
             THEN BQ_advance_min_(qb) ELSE qb

\* preconditions (asserts): v is present; new_key <= old key unless allow_increase
BQ_change_key_(q, v, new_key, allow_increase) ==
    LET p  == BQ_pos(q, v)
        qa == BQ_unlink_(q, v)
        bk == DA_ensure(qa.buckets_, new_key)
        bn == DA_at(bk, new_key, <<>>)
        qb == [qa EXCEPT !.buckets_ = DA_put(bk, new_key, Append(bn, v), <<>>),
                         !.pos_     = DA_put(@, v, [key |-> new_key, idx |-> Len(bn), present |-> TRUE], BPos0),
                         !.min_key_ = IF new_key < @ THEN new_key ELSE @]
    IN  IF new_key = p.key THEN q
        ELSE IF BQ_bucket(qb, qb.min_key_) = <<>> THEN BQ_advance_min_(qb) ELSE qb

BQ_decrease_key(q, v, new_key) == BQ_change_key_(q, v, new_key, FALSE)

BQ_increase_key(q, v, new_key) == BQ_change_key_(q, v, new_key, TRUE)

(***************************************************************************)
(* Pack harness: pack_fh_asc applied to inputs around the 16-bit edge.     *)
(***************************************************************************)
PackEdge == 3

PackInputs == (0 .. PackEdge) \cup ((TwoPowH - PackEdge - 1) .. (TwoPowH + PackEdge))

PkIdle == [f |-> 0, h |-> 0, key |-> <<0, 0>>, packed |-> FALSE]

PkInit == pk \in [f : PackInputs, h : PackInputs, key : {<<0, 0>>}, packed : {FALSE}]

Pack ==
    /\ ~pk.packed
    /\ pk' = [pk EXCEPT !.key = pack_fh_asc(pk.f, pk.h), !.packed = TRUE]
    /\ UNCHANGED notPk

(***************************************************************************)
(* Queue harness: any sequence of calls that respects the asserted         *)
(* preconditions, on a TwoLevelBucketPQ or on a BucketPQ.  qcall records   *)
(* the call just made: its name, its arguments and what it returned.       *)
(***************************************************************************)
MaxValue == 1

Values == 0 .. MaxValue

\* (f, h) pairs that share a bitset word and pairs that do not
PQKeyPairs == {<<0, 0>>, <<0, 1>>, <<1, WORD_BITS + 1>>, <<WORD_BITS, WORD_BITS + 1>>}

PQKeys == {pack_fh_asc(fh[1], fh[2]) : fh \in PQKeyPairs}

NoCall == [op |-> "none", v |-> 0, key |-> <<0, 0>>, ret |-> <<>>]

TwoLevel == qkind = "TwoLevelBucketPQ"

\* the abstract content of a queue of the kind under test: the present
\* values and their keys (a2 a TwoLevelBucketPQ, a1 a BucketPQ)
ContainsIn(a2, a1, v) == IF TwoLevel THEN TL_contains(a2, v) ELSE BQ_contains(a1, v)

KeyOfIn(a2, a1, v) ==
    IF TwoLevel THEN TL_key_of(a2, v)
    ELSE IF BQ_contains(a1, v)
         THEN <<BQ_key_of(a1, v) \div TwoPowH, BQ_key_of(a1, v) % TwoPowH>>
         ELSE KEY_MAX

PresentIn(a2, a1) == {v \in Values : ContainsIn(a2, a1, v)}

PQ_contains(v) == ContainsIn(q2, q1, v)

PQ_key_of(v) == KeyOfIn(q2, q1, v)

PQ_present == PresentIn(q2, q1)

PQ_empty == IF TwoLevel THEN TL_empty(q2) ELSE BQ_empty(q1)

PQIdle == qkind = "none" /\ q2 = TwoLevelBucketPQ0 /\ q1 = BucketPQ0 /\ qcall = NoCall

PkIdleInit == pk = PkIdle

PQInit ==
    /\ qkind \in {"TwoLevelBucketPQ", "BucketPQ"}
    /\ q2 = TwoLevelBucketPQ0
    /\ q1 = BucketPQ0
    /\ qcall = NoCall

PQ_insert(v, k) ==
    /\ ~PQ_contains(v)
    /\ IF TwoLevel
       THEN q2' = TL_insert(q2, v, k) /\ q1' = q1
       ELSE q1' = BQ_insert(q1, v, KeyInt(k)) /\ q2' = q2
    /\ qcall' = [op |-> "insert", v |-> v, key |-> k, ret |-> <<>>]
    /\ UNCHANGED <<qkind, notPQ>>

PQ_extract_min ==
    /\ ~PQ_empty
    /\ IF TwoLevel
       THEN LET r == TL_extract_min(q2)
            IN  /\ q2' = r.q /\ q1' = q1
                /\ qcall' = [op |-> "extract_min", v |-> r.v, key |-> r.key, ret |-> <<r.v, r.key>>]
       ELSE LET r == BQ_extract_min(q1)
                k == <<r.key \div TwoPowH, r.key % TwoPowH>>
            IN  /\ q1' = r.q /\ q2' = q2
                /\ qcall' = [op |-> "extract_min", v |-> r.v, key |-> k, ret |-> <<r.v, k>>]
    /\ UNCHANGED <<qkind, notPQ>>

PQ_remove(v) ==
    /\ IF TwoLevel
       THEN q2' = TL_remove(q2, v) /\ q1' = q1
       ELSE q1' = BQ_remove(q1, v) /\ q2' = q2
    /\ qcall' = [op |-> "remove", v |-> v, key |-> <<0, 0>>, ret |-> <<>>]
    /\ UNCHANGED <<qkind, notPQ>>

PQ_decrease_key(v, k) ==
    /\ PQ_contains(v)
    /\ KeyLeq(k, PQ_key_of(v))
    /\ IF TwoLevel
       THEN q2' = TL_decrease_key(q2, v, k) /\ q1' = q1
       ELSE q1' = BQ_decrease_key(q1, v, KeyInt(k)) /\ q2' = q2
    /\ qcall' = [op |-> "decrease_key", v |-> v, key |-> k, ret |-> <<>>]
    /\ UNCHANGED <<qkind, notPQ>>

PQ_increase_key(v, k) ==
    /\ PQ_contains(v)
    /\ IF TwoLevel
       THEN q2' = TL_increase_key(q2, v, k) /\ q1' = q1
       ELSE q1' = BQ_increase_key(q1, v, KeyInt(k)) /\ q2' = q2
    /\ qcall' = [op |-> "increase_key", v |-> v, key |-> k, ret |-> <<>>]
    /\ UNCHANGED <<qkind, notPQ>>

PQNext ==
    \/ \E v \in Values, k \in PQKeys : PQ_insert(v, k)
    \/ PQ_extract_min
    \/ \E v \in Values : PQ_remove(v)
    \/ \E v \in Values, k \in PQKeys : PQ_decrease_key(v, k)
    \/ \E v \in Values, k \in PQKeys : PQ_increase_key(v, k)

(***************************************************************************)
(* SAS+ tasks (include/sas/sas_reader.hpp).  A State is the vector of the  *)
(* values of the variables; variable ids and values count from 0, so the   *)
(* value of variable v in s is At0(s, v).  An Operator is a record         *)
(*   prevail   : sequence of <<var, val>>                                  *)
(*   pre_posts : sequence of [conds, var, pre, post]  (pre = -1: any)      *)
(*   cost      : int                                                       *)
(* and a MutexGroup is a record [lits : sequence of <<var, val>>].         *)
(***************************************************************************)
Lit_var(l) == l[1]

Lit_val(l) == l[2]

\* fault variant of is_goal: no state passes the goal test
is_goal_Never(task, s) == FALSE

is_goal(task, s) ==
    \A i \in DOMAIN task.goal : At0(s, Lit_var(task.goal[i])) = Lit_val(task.goal[i])

is_applicable(task, s, op) ==
    /\ \A i \in DOMAIN op.prevail :
          At0(s, Lit_var(op.prevail[i])) = Lit_val(op.prevail[i])
    /\ \A i \in DOMAIN op.pre_posts :
          \A j \in DOMAIN op.pre_posts[i].conds :
              At0(s, Lit_var(op.pre_posts[i].conds[j])) = Lit_val(op.pre_posts[i].conds[j])
    /\ \A i \in DOMAIN op.pre_posts :
          op.pre_posts[i].pre >= 0 => At0(s, op.pre_posts[i].var) = op.pre_posts[i].pre

\* the assignments var := post, in the order of pre_posts, from the i-th on
RECURSIVE apply_from(_, _, _)
apply_from(pps, s, i) ==
    IF i > Len(pps) THEN s
    ELSE apply_from(pps, [s EXCEPT ![pps[i].var + 1] = pps[i].post], i + 1)

\* the state apply_inplace leaves in work (the undo log only serves the
\* restoration of work at the end of the iteration)
apply_inplace(task, op, s) == apply_from(op.pre_posts, s, 1)

\* fault variant of violates_mutex: only three literals of a group violate it
violates_mutex_MoreThanTwo(task, s) ==
    \E gi \in DOMAIN task.mutexes :
        LET G == task.mutexes[gi]
        IN  Cardinality({i \in DOMAIN G.lits :
                            /\ Lit_var(G.lits[i]) < Len(s)
                            /\ At0(s, Lit_var(G.lits[i])) = Lit_val(G.lits[i])}) > 2

violates_mutex(task, s) ==
    \E gi \in DOMAIN task.mutexes :
        LET G == task.mutexes[gi]
        IN  Cardinality({i \in DOMAIN G.lits :
                            /\ Lit_var(G.lits[i]) < Len(s)
                            /\ At0(s, Lit_var(G.lits[i])) = Lit_val(G.lits[i])}) > 1

MUTEX_AUTO == 0

MUTEX_ON == 1

MUTEX_OFF == 2

\* the global of sas_search.cpp, at its initial value
g_mutex_mode == MUTEX_AUTO

should_check_mutex_runtime(task) ==
    IF g_mutex_mode = MUTEX_OFF THEN FALSE
    ELSE IF g_mutex_mode = MUTEX_ON THEN TRUE
    ELSE task.mutexes # <<>>

\* fault variant of extract_plan: the actions are left in the order from the
\* goal node back to the root
RECURSIVE extract_plan_Unreversed(_, _)
extract_plan_Unreversed(nodes, goal_id) ==
    IF goal_id >= 0 /\ At0(nodes, goal_id).parent >= 0
    THEN <<At0(nodes, goal_id).act_id>> \o extract_plan_Unreversed(nodes, At0(nodes, goal_id).parent)
    ELSE <<>>

\* the actions on the parent chain of goal_id, first action first
RECURSIVE extract_plan(_, _)
extract_plan(nodes, goal_id) ==
    IF goal_id >= 0 /\ At0(nodes, goal_id).parent >= 0
    THEN Append(extract_plan(nodes, At0(nodes, goal_id).parent), At0(nodes, goal_id).act_id)
    ELSE <<>>

RECURSIVE eval_plan_cost_from(_, _, _)
eval_plan_cost_from(task, plan, i) ==
    IF i > Len(plan) THEN 0
    ELSE At0(task.ops, plan[i]).cost + eval_plan_cost_from(task, plan, i + 1)

eval_plan_cost(task, plan) == eval_plan_cost_from(task, plan, 1)

\* rounding throws on a negative value
ROUNDING_THROWS == -1

rounding(x) == IF x < 0 THEN ROUNDING_THROWS ELSE x

\* fault variant of index_of: no state is ever found
index_of_NeverFound(nodes, s) == -1

\* index_of mirrors R.nodes: the id of the node holding s, or -1 for end()
index_of(nodes, s) ==
    LET hits == {i \in DOMAIN nodes : nodes[i].s = s}
    IN  IF hits = {} THEN -1 ELSE Min(hits) - 1

Node(s, parent, act_id) == [s |-> s, parent |-> parent, act_id |-> act_id]

MetaI(g, h, is_closed) == [g |-> g, h |-> h, closed |-> is_closed]

Stats0 == [generated |-> 0, expanded |-> 0, evaluated |-> 0, duplicates |-> 0]

Result0 == [solved |-> FALSE, plan |-> <<>>, plan_cost |-> 0, nodes |-> <<>>, stats |-> Stats0]

\* meta[i] := m after meta.resize(n): ids beyond the old size hold MetaI{}
meta_resize(mt, n) ==
    IF n <= Len(mt) THEN SubSeq(mt, 1, n)
    ELSE [i \in 1..n |-> IF i <= Len(mt) THEN mt[i] ELSE MetaI(0, 0, FALSE)]

(***************************************************************************)
(* Heuristics (src/sas/sas_heuristic.cpp).  A HeuristicFn is any function  *)
(* of the task and the state; the model holds it as the table of its       *)
(* values on the states of the task.                                       *)
(***************************************************************************)
PSEUDOINF == 65536

goalcount(task, s) ==
    Cardinality({i \in DOMAIN task.goal : At0(s, Lit_var(task.goal[i])) # Lit_val(task.goal[i])})

blind(task, s) == 0

(***************************************************************************)
(* Sequential A*, integer mode (src/sas/sas_search.cpp, astar).  The body  *)
(* of the successor loop is an operator from the objects before the        *)
(* iteration to the objects after it.                                      *)
(***************************************************************************)
\* fault variant of astar_key: the key carries g alone as its f part
astar_key_GOnly(g, hv) == pack_fh_asc(g, hv)

astar_key(g, hv) == pack_fh_asc(g + hv, hv)

\* fault variant of astar_tentative_g: every operator counts as cost 1
astar_tentative_g_UnitCost(gu, w) == gu + 1

astar_tentative_g(gu, w) == gu + w

\* fault variant of astar_improves: an equal g counts as an improvement
astar_improves_OrEqual(tentative_g, g_old) == tentative_g <= g_old

astar_improves(tentative_g, g_old) == tentative_g < g_old

\* the popped entry is dropped when its key is not the current key of the node
astar_stale(key, m) == unpack_f(key) # m.g + m.h \/ unpack_h(key) # m.h

\* fault variant of cap_reached: the cap counts the expansion it allows
cap_reached_AtLimit(expanded, max_expansions) == expanded >= max_expansions

\* fault variant of cap_reached: one more expansion passes
cap_reached_OnePast(expanded, max_expansions) == expanded - 1 > max_expansions

cap_reached(expanded, max_expansions) == expanded > max_expansions

Bump(res, field) == [res EXCEPT !.stats[field] = @ + 1]

Outcome(res, mt, q) == [R |-> res, meta |-> mt, open |-> q]

\* the state was not seen before: a new node v
astar_new_node(hf, res, mt, q, u, a, work, tentative_g) ==
    LET v    == Len(res.nodes)
        res1 == [res EXCEPT !.nodes = Append(@, Node(work, u, a))]
        hv   == rounding(hf[work])
        mt1  == IF Len(mt) <= v THEN meta_resize(mt, v + 1) ELSE mt
    IN  Outcome(Bump(res1, "evaluated"),
                [mt1 EXCEPT ![v + 1] = MetaI(tentative_g, hv, FALSE)],
                TL_insert(q, v, astar_key(tentative_g, hv)))

\* fault variant of astar_revisit: a reopened node keeps its closed flag
astar_revisit_KeepsClosed(hf, prm, res, mt, q, u, a, v, tentative_g) ==
    IF astar_improves(tentative_g, At0(mt, v).g)
    THEN LET res1    == [res EXCEPT !.nodes[v + 1].parent = u, !.nodes[v + 1].act_id = a]
             hv      == rounding(hf[At0(res.nodes, v).s])
             mt1     == [mt EXCEPT ![v + 1].g = tentative_g, ![v + 1].h = hv]
             res2    == Bump(res1, "evaluated")
             new_key == astar_key(tentative_g, hv)
         IN  IF At0(mt, v).closed
             THEN IF ~prm.reopen_closed
                  THEN Outcome(Bump(res2, "duplicates"), mt1, q)
                  ELSE Outcome(res2, mt1, TL_insert(q, v, new_key))
             ELSE IF TL_contains(q, v)
                  THEN LET cur_key == TL_key_of(q, v)
                       IN  IF KeyLess(new_key, cur_key)
                           THEN Outcome(res2, mt1, TL_decrease_key(q, v, new_key))
                           ELSE IF KeyLess(cur_key, new_key)
                           THEN Outcome(res2, mt1, TL_increase_key(q, v, new_key))
                           ELSE Outcome(res2, mt1, q)
                  ELSE Outcome(res2, mt1, TL_insert(q, v, new_key))
    ELSE Outcome(Bump(res, "duplicates"), mt, q)

\* the state is the one of node v
astar_revisit(hf, prm, res, mt, q, u, a, v, tentative_g) ==
    IF astar_improves(tentative_g, At0(mt, v).g)
    THEN LET res1    == [res EXCEPT !.nodes[v + 1].parent = u, !.nodes[v + 1].act_id = a]
             hv      == rounding(hf[At0(res.nodes, v).s])
             mt1     == [mt EXCEPT ![v + 1].g = tentative_g, ![v + 1].h = hv]
             res2    == Bump(res1, "evaluated")
             new_key == astar_key(tentative_g, hv)
         IN  IF At0(mt, v).closed
             THEN IF ~prm.reopen_closed
                  THEN Outcome(Bump(res2, "duplicates"), mt1, q)
                  ELSE Outcome(res2, [mt1 EXCEPT ![v + 1].closed = FALSE],
                               TL_insert(q, v, new_key))
             ELSE IF TL_contains(q, v)
                  THEN LET cur_key == TL_key_of(q, v)
                       IN  IF KeyLess(new_key, cur_key)
                           THEN Outcome(res2, mt1, TL_decrease_key(q, v, new_key))
                           ELSE IF KeyLess(cur_key, new_key)
                           THEN Outcome(res2, mt1, TL_increase_key(q, v, new_key))
                           ELSE Outcome(res2, mt1, q)
                  ELSE Outcome(res2, mt1, TL_insert(q, v, new_key))
    ELSE Outcome(Bump(res, "duplicates"), mt, q)

\* one iteration of the successor loop: operator a applied to node u
astar_successor(task, hf, prm, res, mt, q, u, a) ==
    LET op == At0(task.ops, a)
        su == At0(res.nodes, u).s
    IN  IF ~is_applicable(task, su, op) THEN Outcome(res, mt, q)
        ELSE LET work == apply_inplace(task, op, su)
                 res1 == Bump(res, "generated")
             IN  IF should_check_mutex_runtime(task) /\ violates_mutex(task, work)
                 THEN Outcome(res1, mt, q)
                 ELSE LET w           == rounding(op.cost)
                          tentative_g == astar_tentative_g(At0(mt, u).g, w)
                          v           == index_of(res1.nodes, work)
                      IN  IF v = -1
                          THEN astar_new_node(hf, res1, mt, q, u, a, work, tentative_g)
                          ELSE astar_revisit(hf, prm, res1, mt, q, u, a, v, tentative_g)

\* the successor loop moves on to a + 1, or the while loop to its next round
NextIteration ==
    IF cur_a + 1 < Len(T.ops)
    THEN pc' = "expand" /\ cur_a' = cur_a + 1
    ELSE pc' = "loop" /\ cur_a' = 0

\* astar, up to the while loop
astar_init ==
    /\ pc = "start" /\ engine = "astar"
    /\ LET s0   == T.init
           res0 == [Result0 EXCEPT !.nodes = <<Node(s0, -1, -1)>>]
           h0   == rounding(hfn[s0])
       IN  IF is_goal(T, s0)
           THEN /\ R' = [res0 EXCEPT !.solved = TRUE]
                /\ pc' = "done"
                /\ UNCHANGED <<meta, open>>
           ELSE /\ R' = Bump(res0, "evaluated")
                /\ meta' = <<MetaI(0, h0, FALSE)>>
                /\ open' = TL_insert(TwoLevelBucketPQ0, 0, pack_fh_asc(h0, h0))
                /\ pc' = "loop"
    /\ UNCHANGED <<T, hfn, params, engine, open_pref, open_norm, cur_u, cur_a, notSeq>>

\* one round of the while loop up to the successor loop: pop, drop a stale
\* entry, goal test, close, count the expansion, test the cap
astar_pop ==
    /\ pc = "loop" /\ engine = "astar" /\ ~TL_empty(open)
    /\ LET em == TL_extract_min(open)
           u  == em.v
       IN  /\ open' = em.q
           /\ cur_u' = u
           /\ cur_a' = 0
           /\ IF astar_stale(em.key, At0(meta, u))
              THEN pc' = "loop" /\ UNCHANGED <<R, meta>>
              ELSE IF is_goal(T, At0(R.nodes, u).s)
              THEN /\ R' = [R EXCEPT !.solved = TRUE,
                                     !.plan = extract_plan(R.nodes, u),
                                     !.plan_cost = eval_plan_cost(T, extract_plan(R.nodes, u))]
                   /\ pc' = "done"
                   /\ UNCHANGED meta
              ELSE /\ meta' = [meta EXCEPT ![u + 1].closed = TRUE]
                   /\ R' = Bump(R, "expanded")
                   /\ pc' = IF cap_reached(R.stats.expanded + 1, params.max_expansions) THEN "done"
                            ELSE IF Len(T.ops) = 0 THEN "loop"
                            ELSE "expand"
    /\ UNCHANGED <<T, hfn, params, engine, open_pref, open_norm, notSeq>>

\* one iteration of the successor loop
astar_expand ==
    /\ pc = "expand" /\ engine = "astar"
    /\ LET out == astar_successor(T, hfn, params, R, meta, open, cur_u, cur_a)
       IN  R' = out.R /\ meta' = out.meta /\ open' = out.open
    /\ NextIteration
    /\ UNCHANGED <<T, hfn, params, engine, open_pref, open_norm, cur_u, notSeq>>

\* the while loop ends on an empty open list: return R
astar_return ==
    /\ pc = "loop" /\ engine = "astar" /\ TL_empty(open)
    /\ pc' = "done"
    /\ UNCHANGED <<T, hfn, params, engine, R, meta, open, open_pref, open_norm, cur_u, cur_a, notSeq>>

(***************************************************************************)
(* Sequential GBFS, integer mode (src/sas/sas_search.cpp, gbfs).  The key  *)
(* of a node is pack_fh_asc(h, g): h in the high half, g in the low half.  *)
(***************************************************************************)
GOutcome(res, mt, qp, qn) == [R |-> res, meta |-> mt, open_pref |-> qp, open_norm |-> qn]

\* fault variant of gbfs_pick: open_norm is served first
gbfs_pick_NormFirst(qp, qn) ==
    IF ~TL_empty(qn)
    THEN LET em == TL_extract_min(qn)
         IN  [open_pref |-> qp, open_norm |-> em.q, v |-> em.v, key |-> em.key]
    ELSE LET em == TL_extract_min(qp)
         IN  [open_pref |-> em.q, open_norm |-> qn, v |-> em.v, key |-> em.key]

\* pick: from open_pref when it is not empty, else from open_norm
gbfs_pick(qp, qn) ==
    IF ~TL_empty(qp)
    THEN LET em == TL_extract_min(qp)
         IN  [open_pref |-> em.q, open_norm |-> qn, v |-> em.v, key |-> em.key]
    ELSE LET em == TL_extract_min(qn)
         IN  [open_pref |-> qp, open_norm |-> em.q, v |-> em.v, key |-> em.key]

\* one iteration of the successor loop: operator a applied to node u
gbfs_successor(task, hf, res, mt, qp, qn, u, a) ==
    LET op == At0(task.ops, a)
        su == At0(res.nodes, u).s
    IN  IF ~is_applicable(task, su, op) THEN GOutcome(res, mt, qp, qn)
        ELSE LET work == apply_inplace(task, op, su)
                 res1 == Bump(res, "generated")
             IN  IF should_check_mutex_runtime(task) /\ violates_mutex(task, work)
                 THEN GOutcome(res1, mt, qp, qn)
                 ELSE IF index_of(res1.nodes, work) = -1
                 THEN LET hv           == rounding(hf[work])
                          is_preferred == hv < At0(mt, u).h
                          v            == Len(res1.nodes)
                          res2         == [Bump(res1, "evaluated") EXCEPT
                                              !.nodes = Append(@, Node(work, u, a))]
                          mt1          == IF Len(mt) <= v THEN meta_resize(mt, v * 2) ELSE mt
                          gv           == At0(mt, u).g + rounding(op.cost)
                          mt2          == [mt1 EXCEPT ![v + 1] = MetaI(gv, hv, FALSE)]
                      IN  IF is_preferred
                          THEN GOutcome(res2, mt2, TL_insert(qp, v, pack_fh_asc(hv, gv)), qn)
                          ELSE GOutcome(res2, mt2, qp, TL_insert(qn, v, pack_fh_asc(hv, gv)))
                 ELSE GOutcome(Bump(res1, "duplicates"), mt, qp, qn)

gbfs_open_empty == TL_empty(open_pref) /\ TL_empty(open_norm)

\* gbfs, up to the while loop
gbfs_init ==
    /\ pc = "start" /\ engine = "gbfs"
    /\ LET s0   == T.init
           res0 == [Result0 EXCEPT !.nodes = <<Node(s0, -1, -1)>>]
           h0   == rounding(hfn[s0])
       IN  IF is_goal(T, s0)
           THEN /\ R' = [res0 EXCEPT !.solved = TRUE]
                /\ pc' = "done"
                /\ UNCHANGED <<meta, open_norm>>
           ELSE /\ R' = Bump(res0, "evaluated")
                /\ meta' = <<MetaI(0, h0, FALSE)>>
                /\ open_norm' = TL_insert(TwoLevelBucketPQ0, 0, pack_fh_asc(h0, 0))
                /\ pc' = "loop"
    /\ UNCHANGED <<T, hfn, params, engine, open, open_pref, cur_u, cur_a, notSeq>>

\* one round of the while loop up to the successor loop: pick, goal test,
\* close, count the expansion, test the cap
gbfs_pop ==
    /\ pc = "loop" /\ engine = "gbfs" /\ ~gbfs_open_empty
    /\ LET pk1 == gbfs_pick(open_pref, open_norm)
           u   == pk1.v
       IN  /\ open_pref' = pk1.open_pref
           /\ open_norm' = pk1.open_norm
           /\ cur_u' = u
           /\ cur_a' = 0
           /\ IF is_goal(T, At0(R.nodes, u).s)
              THEN /\ R' = [R EXCEPT !.solved = TRUE,
                                     !.plan = extract_plan(R.nodes, u),
                                     !.plan_cost = eval_plan_cost(T, extract_plan(R.nodes, u))]
                   /\ pc' = "done"
                   /\ UNCHANGED meta
              ELSE /\ meta' = [meta EXCEPT ![u + 1].closed = TRUE]
                   /\ R' = Bump(R, "expanded")
                   /\ pc' = IF cap_reached(R.stats.expanded + 1, params.max_expansions) THEN "done"
                            ELSE IF Len(T.ops) = 0 THEN "loop"
                            ELSE "expand"
    /\ UNCHANGED <<T, hfn, params, engine, open, notSeq>>

\* one iteration of the successor loop
gbfs_expand ==
    /\ pc = "expand" /\ engine = "gbfs"
    /\ LET out == gbfs_successor(T, hfn, R, meta, open_pref, open_norm, cur_u, cur_a)
       IN  /\ R' = out.R /\ meta' = out.meta
           /\ open_pref' = out.open_pref /\ open_norm' = out.open_norm
    /\ NextIteration
    /\ UNCHANGED <<T, hfn, params, engine, open, cur_u, notSeq>>

\* the while loop ends on two empty open lists: return R
gbfs_return ==
    /\ pc = "loop" /\ engine = "gbfs" /\ gbfs_open_empty
    /\ pc' = "done"
    /\ UNCHANGED <<T, hfn, params, engine, R, meta, open, open_pref, open_norm, cur_u, cur_a, notSeq>>

\* time_exceeded_cpu() answers true at the top of a round of the while loop
\* of either engine: std::exit(101)
cpu_timeout ==
    /\ pc = "loop"
    /\ IF engine = "astar" THEN ~TL_empty(open) ELSE ~gbfs_open_empty
    /\ pc' = "exit101"
    /\ UNCHANGED <<T, hfn, params, engine, R, meta, open, open_pref, open_norm, cur_u, cur_a, notSeq>>

(***************************************************************************)
(* The tasks, heuristics and parameters the sequential engines are run on: *)
(* two variables, x (id 0) with three values and y (id 1) with two, the    *)
(* initial state <<0, 0>>, and as operators any at most MaxOps operators   *)
(* of OpPool, in the order of the pool.                                    *)
(***************************************************************************)
MaxOps == 4

SmallCap == 2

\* stands for the default of Params::max_expansions, 1 << 62
MAX_EXPANSIONS_DEFAULT == 2147483647

VarDomains == <<3, 2>>

AllStates == {<<x, y>> : x \in 0..2, y \in 0..1}

PrePost(conds, var, pre, post) == [conds |-> conds, var |-> var, pre |-> pre, post |-> post]

Operator(prevail, pre_posts, cost) == [prevail |-> prevail, pre_posts |-> pre_posts, cost |-> cost]

OpPool ==
    << Operator(<<>>, <<PrePost(<<>>, 0, 0, 1)>>, 1),             \* x: 0 -> 1
       Operator(<<>>, <<PrePost(<<>>, 0, 0, 2)>>, 3),             \* x: 0 -> 2, the dear way
       Operator(<<>>, <<PrePost(<<>>, 0, 1, 2)>>, 1),             \* x: 1 -> 2
       Operator(<<<<0, 2>>>>, <<PrePost(<<>>, 1, 0, 1)>>, 1),     \* y: 0 -> 1 while x = 2
       Operator(<<>>, <<PrePost(<<>>, 0, -1, 0)>>, 0),            \* x := 0 for free
       Operator(<<>>, <<PrePost(<<>>, 0, -1, 1)>>, H_MASK),       \* x := 1 at cost 65535
       Operator(<<>>, <<PrePost(<<<<0, 1>>>>, 1, -1, 1)>>, 2) >>  \* y := 1 if x = 1

\* the subsequences of pool with at most n elements
RECURSIVE SubSeqsUpTo(_, _)
SubSeqsUpTo(pool, n) ==
    IF pool = <<>> \/ n = 0 THEN {<<>>}
    ELSE SubSeqsUpTo(Tail(pool), n)
         \cup {<<Head(pool)>> \o r : r \in SubSeqsUpTo(Tail(pool), n - 1)}

Goals == {<<<<0, 0>>>>, <<<<0, 2>>>>, <<<<0, 2>>, <<1, 1>>>>}

MutexSets == {<<>>, <<[lits |-> <<<<0, 2>>, <<1, 1>>>>]>>}

Tasks ==
    {[vars |-> VarDomains, init |-> <<0, 0>>, goal |-> g, ops |-> o, mutexes |-> m] :
        g \in Goals, o \in SubSeqsUpTo(OpPool, MaxOps), m \in MutexSets}

\* goalcount, blind, and two tables that are large where x = 1
Heuristics(task) ==
    { [s \in AllStates |-> goalcount(task, s)],
      [s \in AllStates |-> blind(task, s)],
      [s \in AllStates |-> IF s[1] = 1 THEN 2 ELSE 0],
      [s \in AllStates |-> IF s[1] = 1 THEN PSEUDOINF ELSE 0] }

ParamSets ==
    {[max_expansions |-> m, reopen_closed |-> r] :
        m \in {SmallCap, MAX_EXPANSIONS_DEFAULT}, r \in BOOLEAN}

SeqIdle ==
    /\ T = [vars |-> <<>>, init |-> <<>>, goal |-> <<>>, ops |-> <<>>, mutexes |-> <<>>]
    /\ hfn = <<>>
    /\ params = [max_expansions |-> MAX_EXPANSIONS_DEFAULT, reopen_closed |-> TRUE]
    /\ engine = "none"
    /\ R = Result0
    /\ meta = <<>>
    /\ open = TwoLevelBucketPQ0
    /\ open_pref = TwoLevelBucketPQ0
    /\ open_norm = TwoLevelBucketPQ0
    /\ pc = "idle"
    /\ cur_u = 0
    /\ cur_a = 0

\* an engine is called on a task; gbfs does not read reopen_closed
SeqInit ==
    /\ T \in Tasks
    /\ hfn \in Heuristics(T)
    /\ params \in ParamSets
    /\ engine \in {"astar", "gbfs"}
    /\ engine = "gbfs" => params.reopen_closed
    /\ R = Result0
    /\ meta = <<>>
    /\ open = TwoLevelBucketPQ0
    /\ open_pref = TwoLevelBucketPQ0
    /\ open_norm = TwoLevelBucketPQ0
    /\ pc = "start"
    /\ cur_u = 0
    /\ cur_a = 0

SeqStep ==
    \/ astar_init \/ astar_pop \/ astar_expand \/ astar_return
    \/ gbfs_init \/ gbfs_pop \/ gbfs_expand \/ gbfs_return


\* the engine has not returned and the process has not exited
Running == pc \in {"start", "loop", "expand"}

\* the engine runs on: weak fairness of SeqStep, WF_vars(SeqStep), in the
\* form []<>(not enabled) \/ []<>(step); SeqStep is enabled exactly in
\* the Running states
SeqFair == []<>(~Running) \/ []<><<SeqStep>>_vars

(***************************************************************************)
(* Bidirectional search (src/sas/bi_search.cpp): forward A* and backward   *)
(* uniform-cost regression over partial states.  A RegState holds -1 for   *)
(* an unknown variable.                                                    *)
(***************************************************************************)
make_goal_reg_state(task) ==
    [v1 \in 1..Len(task.vars) |->
        LET hits == {i \in DOMAIN task.goal : Lit_var(task.goal[i]) = v1 - 1}
        IN  IF hits = {} THEN -1 ELSE Lit_val(task.goal[Max(hits)])]

forward_state_satisfies_reg(s, reg) ==
    \A v \in 0..(Len(reg) - 1) : At0(reg, v) >= 0 => At0(s, v) = At0(reg, v)

REGRESS_FAILS == <<>>

\* a loop over literals <<v, val>> of regress_state: each must agree with
\* reg_state and with prev, and is written into prev
RECURSIVE reg_require(_, _, _, _)
reg_require(lits, reg_state, prev, i) ==
    IF prev = REGRESS_FAILS \/ i > Len(lits) THEN prev
    ELSE LET v   == Lit_var(lits[i])
             val == Lit_val(lits[i])
         IN  IF At0(reg_state, v) >= 0 /\ At0(reg_state, v) # val THEN REGRESS_FAILS
             ELSE IF At0(prev, v) >= 0 /\ At0(prev, v) # val THEN REGRESS_FAILS
             ELSE reg_require(lits, reg_state, [prev EXCEPT ![v + 1] = val], i + 1)

\* the loop that writes var = pre into prev
RECURSIVE reg_pre(_, _, _, _)
reg_pre(pps, reg_state, prev, i) ==
    IF prev = REGRESS_FAILS \/ i > Len(pps) THEN prev
    ELSE LET var        == pps[i].var
             pre        == pps[i].pre
             before_val == At0(prev, var)
         IN  IF pre < 0 THEN reg_pre(pps, reg_state, prev, i + 1)
             ELSE IF /\ before_val >= 0 /\ before_val # pre
                     /\ ~(At0(reg_state, var) >= 0 /\ before_val = At0(reg_state, var))
             THEN REGRESS_FAILS
             ELSE reg_pre(pps, reg_state, [prev EXCEPT ![var + 1] = pre], i + 1)

\* all conds of all pre_posts, in order
RECURSIVE all_conds(_, _)
all_conds(pps, i) == IF i > Len(pps) THEN <<>> ELSE pps[i].conds \o all_conds(pps, i + 1)

\* fault variant of regress_state: an operator none of whose posts is
\* concrete in reg_state is regressed all the same
regress_state_NoRelevance(task, op, reg_state) ==
    LET pps        == op.pre_posts
        known      == {i \in DOMAIN pps : At0(reg_state, pps[i].var) >= 0}
        consistent == \A i \in known : At0(reg_state, pps[i].var) = pps[i].post
        p1 == reg_require(op.prevail, reg_state, reg_state, 1)
        p2 == reg_require(all_conds(pps, 1), reg_state, p1, 1)
        p3 == reg_pre(pps, reg_state, p2, 1)
    IN  IF ~consistent THEN REGRESS_FAILS
        ELSE IF p3 = REGRESS_FAILS THEN REGRESS_FAILS
        ELSE IF \E v \in 0..(Len(task.vars) - 1) : At0(p3, v) >= At0(task.vars, v)
        THEN REGRESS_FAILS
        ELSE p3

\* regress_state: prev_out when it returns true, REGRESS_FAILS when false
regress_state(task, op, reg_state) ==
    LET pps        == op.pre_posts
        known      == {i \in DOMAIN pps : At0(reg_state, pps[i].var) >= 0}
        consistent == \A i \in known : At0(reg_state, pps[i].var) = pps[i].post
        relevant   == known # {}
        p1 == reg_require(op.prevail, reg_state, reg_state, 1)
        p2 == reg_require(all_conds(pps, 1), reg_state, p1, 1)
        p3 == reg_pre(pps, reg_state, p2, 1)
    IN  IF ~consistent \/ ~relevant THEN REGRESS_FAILS
        ELSE IF p3 = REGRESS_FAILS THEN REGRESS_FAILS
        ELSE IF \E v \in 0..(Len(task.vars) - 1) : At0(p3, v) >= At0(task.vars, v)
        THEN REGRESS_FAILS
        ELSE p3

BackNode(s, parent, act_id) == [s |-> s, parent |-> parent, act_id |-> act_id]

MetaB(g, is_closed) == [g |-> g, closed |-> is_closed]

\* the initial value of best_cost, infinity
BEST_COST_INF == 2147483647

Meeting0 == [have_meeting |-> FALSE, best_cost |-> BEST_COST_INF, best_f |-> -1, best_b |-> -1]

\* the actions from back node b_id up to the root: the plan from its
\* partial state to the goal
RECURSIVE backward_chain(_, _)
backward_chain(bnodes, b_id) ==
    IF b_id >= 0 /\ At0(bnodes, b_id).parent >= 0
    THEN <<At0(bnodes, b_id).act_id>> \o backward_chain(bnodes, At0(bnodes, b_id).parent)
    ELSE <<>>

\* std::vector grows by doubling: a push_back on n elements reallocates when
\* n is the capacity reached by doubling from 1
RECURSIVE is_pow2(_)
is_pow2(n) == n = 1 \/ (n > 1 /\ n % 2 = 0 /\ is_pow2(n \div 2))

push_back_reallocates(n) == is_pow2(n)

(***************************************************************************)
(* bidir_astar, integer mode.  params holds the arguments p and            *)
(* h_is_integer.  The references su of both sides (bi_search.cpp:544 and   *)
(* :689) point into R.nodes and back_nodes; a push_back that reallocates   *)
(* leaves them dangling for the rest of the successor loop.  su_ok tells   *)
(* whether su is still live; a read through a dangling su yields any       *)
(* state, or the process crashes.                                          *)
(***************************************************************************)
BiResult0 ==
    [solved |-> FALSE, plan |-> <<>>, plan_cost |-> 0, nodes |-> <<>>, stats |-> Stats0,
     meet |-> FALSE, reg_plan_len |-> 0]

AllRegStates == {<<x, y>> : x \in -1..2, y \in -1..1}

\* the meeting scan: hits are the ids on the other side whose state is
\* consistent, scanned in ascending order, the record replaced on each
\* strictly smaller cand
meet_update(mt, hits, Cand(_), F(_), B(_)) ==
    IF hits = {} THEN mt
    ELSE LET m  == Min({Cand(i) : i \in hits})
             i0 == Min({i \in hits : Cand(i) = m})
         IN  IF m < mt.best_cost
             THEN [have_meeting |-> TRUE, best_cost |-> m, best_f |-> F(i0), best_b |-> B(i0)]
             ELSE mt

\* forward node v against all backward nodes
meet_scan_forward(res, mf, bn, mb, mt, v) ==
    LET sv == At0(res.nodes, v).s
        gv == At0(mf, v).g
    IN  meet_update(mt,
                    {b_id \in 0..(Len(bn) - 1) : forward_state_satisfies_reg(sv, At0(bn, b_id).s)},
                    LAMBDA b_id : gv + (IF b_id < Len(mb) THEN At0(mb, b_id).g ELSE 0),
                    LAMBDA b_id : v,
                    LAMBDA b_id : b_id)

\* backward node v against all forward nodes
meet_scan_backward(res, mf, bn, mb, mt, v) ==
    LET rv == At0(bn, v).s
        gv == At0(mb, v).g
    IN  meet_update(mt,
                    {f_id \in 0..(Len(res.nodes) - 1) : forward_state_satisfies_reg(At0(res.nodes, f_id).s, rv)},
                    LAMBDA f_id : (IF f_id < Len(mf) THEN At0(mf, f_id).g ELSE 0) + gv,
                    LAMBDA f_id : f_id,
                    LAMBDA f_id : v)

\* v = NO_SCAN: the iteration ended before the meeting scan
NO_SCAN == -1

FwdOutcome(res, mf, qf, v) == [R |-> res, meta_fwd |-> mf, open_fwd |-> qf, v |-> v]

\* one iteration of the forward successor loop up to the meeting scan; su is
\* what the read through the reference su yields
bi_fwd_successor(task, hf, prm, res, mf, qf, u, a, su) ==
    LET op == At0(task.ops, a)
    IN  IF ~is_applicable(task, su, op) THEN FwdOutcome(res, mf, qf, NO_SCAN)
        ELSE
        LET work_f      == apply_inplace(task, op, su)
            res1        == Bump(res, "generated")
            tentative_g == At0(mf, u).g + rounding(op.cost)
            found       == index_of(res1.nodes, work_f)
        IN  IF should_check_mutex_runtime(task) /\ violates_mutex(task, work_f)
            THEN FwdOutcome(res1, mf, qf, NO_SCAN)
            ELSE IF found = -1
            THEN LET v   == Len(res1.nodes)
                     hv  == rounding(hf[work_f])
                     mf1 == IF Len(mf) <= v THEN meta_resize(mf, v + 1) ELSE mf
                 IN  FwdOutcome(Bump([res1 EXCEPT !.nodes = Append(@, Node(work_f, u, a))], "evaluated"),
                                [mf1 EXCEPT ![v + 1] = MetaI(tentative_g, hv, FALSE)],
                                TL_insert(qf, v, pack_fh_asc(tentative_g + hv, hv)),
                                v)
            ELSE IF tentative_g < At0(mf, found).g
            THEN LET v       == found
                     hv      == rounding(hf[At0(res1.nodes, v).s])
                     res2    == Bump([res1 EXCEPT !.nodes[v + 1].parent = u,
                                                  !.nodes[v + 1].act_id = a], "evaluated")
                     mf1     == [mf EXCEPT ![v + 1].g = tentative_g, ![v + 1].h = hv]
                     new_key == pack_fh_asc(tentative_g + hv, hv)
                 IN  IF At0(mf, v).closed
                     THEN IF ~prm.reopen_closed
                          THEN FwdOutcome(Bump(res2, "duplicates"), mf1, qf, NO_SCAN)
                          ELSE FwdOutcome(res2, [mf1 EXCEPT ![v + 1].closed = FALSE],
                                          TL_insert(qf, v, new_key), v)
                     ELSE IF TL_contains(qf, v)
                          THEN LET cur_key == TL_key_of(qf, v)
                               IN  IF KeyLess(new_key, cur_key)
                                   THEN FwdOutcome(res2, mf1, TL_decrease_key(qf, v, new_key), v)
                                   ELSE IF KeyLess(cur_key, new_key)
                                   THEN FwdOutcome(res2, mf1, TL_increase_key(qf, v, new_key), v)
                                   ELSE FwdOutcome(res2, mf1, qf, v)
                          ELSE FwdOutcome(res2, mf1, TL_insert(qf, v, new_key), v)
            ELSE FwdOutcome(Bump(res1, "duplicates"), mf, qf, NO_SCAN)

BwdOutcome(res, mb, qb, bn, v) ==
    [R |-> res, meta_bwd |-> mb, open_bwd |-> qb, back_nodes |-> bn, v |-> v]

meta_bwd_resize(mb, n) ==
    [i \in 1..n |-> IF i <= Len(mb) THEN mb[i] ELSE MetaB(0, FALSE)]

\* one iteration of the backward successor loop up to the meeting scan
bi_bwd_successor(task, prm, res, mb, qb, bn, u, a, su) ==
    LET op   == At0(task.ops, a)
        prev == regress_state(task, op, su)
    IN  IF prev = REGRESS_FAILS THEN BwdOutcome(res, mb, qb, bn, NO_SCAN)
        ELSE
        LET res1        == Bump(res, "generated")
            tentative_g == At0(mb, u).g + rounding(op.cost)
            found       == index_of(bn, prev)
        IN  IF found = -1
            THEN LET v   == Len(bn)
                     mb1 == IF Len(mb) <= v THEN meta_bwd_resize(mb, v + 1) ELSE mb
                 IN  BwdOutcome(res1,
                                [mb1 EXCEPT ![v + 1] = MetaB(tentative_g, FALSE)],
                                TL_insert(qb, v, pack_fh_asc(tentative_g, 0)),
                                Append(bn, BackNode(prev, u, a)),
                                v)
            ELSE IF tentative_g < At0(mb, found).g
            THEN LET v       == found
                     bn1     == [bn EXCEPT ![v + 1].parent = u, ![v + 1].act_id = a]
                     mb1     == [mb EXCEPT ![v + 1].g = tentative_g]
                     new_key == pack_fh_asc(tentative_g, 0)
                 IN  IF At0(mb, v).closed
                     THEN IF ~prm.reopen_closed
                          THEN BwdOutcome(Bump(res1, "duplicates"), mb1, qb, bn1, NO_SCAN)
                          ELSE BwdOutcome(res1, [mb1 EXCEPT ![v + 1].closed = FALSE],
                                          TL_insert(qb, v, new_key), bn1, v)
                     ELSE IF TL_contains(qb, v)
                          THEN LET cur_key == TL_key_of(qb, v)
                               IN  IF KeyLess(new_key, cur_key)
                                   THEN BwdOutcome(res1, mb1, TL_decrease_key(qb, v, new_key), bn1, v)
                                   ELSE IF KeyLess(cur_key, new_key)
                                   THEN BwdOutcome(res1, mb1, TL_increase_key(qb, v, new_key), bn1, v)
                                   ELSE BwdOutcome(res1, mb1, qb, bn1, v)
                          ELSE BwdOutcome(res1, mb1, TL_insert(qb, v, new_key), bn1, v)
            ELSE BwdOutcome(Bump(res1, "duplicates"), mb, qb, bn, NO_SCAN)

\* the end of a round of the while loop (bi_search.cpp:811-822) with the
\* open lists and the meeting record the round leaves
bi_round_end(did_expand, qf, qb, mt) ==
    IF ~did_expand /\ TL_empty(qf) /\ TL_empty(qb)
    THEN pc' = "break" /\ UNCHANGED expand_forward_turn
    ELSE /\ expand_forward_turn' = ~expand_forward_turn
         /\ pc' = IF params.stop_on_first_meet /\ mt.have_meeting THEN "break" ELSE "loop"

\* the while loop is entered: its condition holds and the cap is not exceeded
bi_round_begins ==
    /\ pc = "loop" /\ engine = "bidir"
    /\ ~(TL_empty(open_fwd) /\ TL_empty(open_bwd))
    /\ ~(R.stats.expanded > params.max_expansions)

\* bidir_astar up to the while loop
bidir_init ==
    /\ pc = "start" /\ engine = "bidir"
    /\ LET s0   == T.init
           g0   == make_goal_reg_state(T)
           res0 == [BiResult0 EXCEPT !.nodes = <<Node(s0, -1, -1)>>]
           h0   == rounding(hfn[s0])
       IN  IF forward_state_satisfies_reg(s0, g0)
           THEN /\ R' = [res0 EXCEPT !.solved = TRUE, !.meet = TRUE]
                /\ pc' = "ret_init_goal"
                /\ UNCHANGED <<meta_fwd, meta_bwd, open_fwd, open_bwd, back_nodes, meeting>>
           ELSE /\ back_nodes' = <<BackNode(g0, -1, -1)>>
                /\ meeting' = Meeting0
                /\ IF params.h_is_integer
                   THEN /\ R' = Bump(res0, "evaluated")
                        /\ meta_fwd' = <<MetaI(0, h0, FALSE)>>
                        /\ meta_bwd' = <<MetaB(0, FALSE)>>
                        /\ open_fwd' = TL_insert(TwoLevelBucketPQ0, 0, pack_fh_asc(h0, h0))
                        /\ open_bwd' = TL_insert(TwoLevelBucketPQ0, 0, pack_fh_asc(0, 0))
                        /\ pc' = "loop"
                   ELSE /\ R' = res0
                        /\ pc' = "exit201"
                        /\ UNCHANGED <<meta_fwd, meta_bwd, open_fwd, open_bwd>>
    /\ expand_forward_turn' = TRUE
    /\ UNCHANGED <<T, hfn, params, engine, cur_u, cur_a, su_ok, notBi>>

\* std::exit(101) at the top of a round
bi_timeout ==
    /\ pc = "loop" /\ engine = "bidir"
    /\ ~(TL_empty(open_fwd) /\ TL_empty(open_bwd))
    /\ pc' = "exit101"
    /\ UNCHANGED <<T, hfn, params, engine, R, cur_u, cur_a, biOnly, notBi>>

\* the while loop ends by its condition or by the expansion cap
bi_loop_exit ==
    /\ pc = "loop" /\ engine = "bidir"
    /\ \/ TL_empty(open_fwd) /\ TL_empty(open_bwd)
       \/ R.stats.expanded > params.max_expansions
    /\ pc' = "break"
    /\ UNCHANGED <<T, hfn, params, engine, R, cur_u, cur_a, biOnly, notBi>>

\* a forward round up to the successor loop
bi_fwd_pop ==
    /\ bi_round_begins
    /\ expand_forward_turn /\ ~TL_empty(open_fwd)
    /\ LET em == TL_extract_min(open_fwd)
           u  == em.v
       IN  /\ open_fwd' = em.q
           /\ cur_u' = u
           /\ cur_a' = 0
           /\ su_ok' = TRUE
           /\ IF \/ u >= Len(meta_fwd)
                 \/ At0(meta_fwd, u).closed
                 \/ astar_stale(em.key, At0(meta_fwd, u))
              THEN pc' = "loop" /\ UNCHANGED <<R, meta_fwd, expand_forward_turn>>
              ELSE IF is_goal(T, At0(R.nodes, u).s)
              THEN /\ R' = [R EXCEPT !.solved = TRUE,
                                     !.plan = extract_plan(R.nodes, u),
                                     !.plan_cost = eval_plan_cost(T, extract_plan(R.nodes, u)),
                                     !.meet = FALSE,
                                     !.reg_plan_len = 0]
                   /\ pc' = "ret_fwd_goal"
                   /\ UNCHANGED <<meta_fwd, expand_forward_turn>>
              ELSE /\ meta_fwd' = [meta_fwd EXCEPT ![u + 1].closed = TRUE]
                   /\ R' = Bump(R, "expanded")
                   /\ IF Len(T.ops) = 0
                      THEN bi_round_end(TRUE, em.q, open_bwd, meeting)
                      ELSE pc' = "fwd_expand" /\ UNCHANGED expand_forward_turn
    /\ UNCHANGED <<T, hfn, params, engine, meta_bwd, open_bwd, back_nodes, meeting, notBi>>

\* one iteration of the forward successor loop
bi_fwd_expand ==
    /\ pc = "fwd_expand" /\ engine = "bidir"
    /\ \E su \in (IF su_ok THEN {At0(R.nodes, cur_u).s} ELSE AllStates) :
          \E out \in {bi_fwd_successor(T, hfn, params, R, meta_fwd, open_fwd, cur_u, cur_a, su)} :
          \E mt \in {IF out.v = NO_SCAN THEN meeting
                     ELSE meet_scan_forward(out.R, out.meta_fwd, back_nodes, meta_bwd, meeting, out.v)} :
              /\ R' = out.R
              /\ meta_fwd' = out.meta_fwd
              /\ open_fwd' = out.open_fwd
              /\ meeting' = mt
              /\ su_ok' = (su_ok /\ ~(Len(out.R.nodes) > Len(R.nodes)
                                       /\ push_back_reallocates(Len(R.nodes))))
              /\ IF cur_a + 1 < Len(T.ops)
                 THEN cur_a' = cur_a + 1 /\ pc' = "fwd_expand" /\ UNCHANGED expand_forward_turn
                 ELSE cur_a' = 0 /\ bi_round_end(TRUE, out.open_fwd, open_bwd, mt)
    /\ UNCHANGED <<T, hfn, params, engine, cur_u, meta_bwd, open_bwd, back_nodes, notBi>>

\* a backward round up to the successor loop
bi_bwd_pop ==
    /\ bi_round_begins
    /\ ~expand_forward_turn /\ ~TL_empty(open_bwd)
    /\ LET em == TL_extract_min(open_bwd)
           u  == em.v
       IN  /\ open_bwd' = em.q
           /\ cur_u' = u
           /\ cur_a' = 0
           /\ su_ok' = TRUE
           /\ IF u >= Len(meta_bwd) \/ At0(meta_bwd, u).closed
              THEN pc' = "loop" /\ UNCHANGED <<R, meta_bwd, expand_forward_turn>>
              ELSE IF forward_state_satisfies_reg(T.init, At0(back_nodes, u).s)
              THEN /\ R' = [R EXCEPT !.solved = TRUE,
                                     !.plan = backward_chain(back_nodes, u),
                                     !.plan_cost = eval_plan_cost(T, backward_chain(back_nodes, u)),
                                     !.meet = FALSE,
                                     !.reg_plan_len = Len(backward_chain(back_nodes, u)) % 256]
                   /\ pc' = "ret_bwd_init"
                   /\ UNCHANGED <<meta_bwd, expand_forward_turn>>
              ELSE /\ meta_bwd' = [meta_bwd EXCEPT ![u + 1].closed = TRUE]
                   /\ R' = Bump(R, "expanded")
                   /\ IF Len(T.ops) = 0
                      THEN bi_round_end(TRUE, open_fwd, em.q, meeting)
                      ELSE pc' = "bwd_expand" /\ UNCHANGED expand_forward_turn
    /\ UNCHANGED <<T, hfn, params, engine, meta_fwd, open_fwd, back_nodes, meeting, notBi>>

\* one iteration of the backward successor loop
bi_bwd_expand ==
    /\ pc = "bwd_expand" /\ engine = "bidir"
    /\ \E su \in (IF su_ok THEN {At0(back_nodes, cur_u).s} ELSE AllRegStates) :
          \E out \in {bi_bwd_successor(T, params, R, meta_bwd, open_bwd, back_nodes, cur_u, cur_a, su)} :
          \E mt \in {IF out.v = NO_SCAN THEN meeting
                     ELSE meet_scan_backward(out.R, meta_fwd, out.back_nodes, out.meta_bwd, meeting, out.v)} :
              /\ R' = out.R
              /\ meta_bwd' = out.meta_bwd
              /\ open_bwd' = out.open_bwd
              /\ back_nodes' = out.back_nodes
              /\ meeting' = mt
              /\ su_ok' = (su_ok /\ ~(Len(out.back_nodes) > Len(back_nodes)
                                       /\ push_back_reallocates(Len(back_nodes))))
              /\ IF cur_a + 1 < Len(T.ops)
                 THEN cur_a' = cur_a + 1 /\ pc' = "bwd_expand" /\ UNCHANGED expand_forward_turn
                 ELSE cur_a' = 0 /\ bi_round_end(TRUE, open_fwd, out.open_bwd, mt)
    /\ UNCHANGED <<T, hfn, params, engine, cur_u, meta_fwd, open_fwd, notBi>>

\* a round in which the side whose turn it is has an empty open list
bi_idle_turn ==
    /\ bi_round_begins
    /\ \/ expand_forward_turn /\ TL_empty(open_fwd)
       \/ ~expand_forward_turn /\ TL_empty(open_bwd)
    /\ bi_round_end(FALSE, open_fwd, open_bwd, meeting)
    /\ UNCHANGED <<T, hfn, params, engine, R, cur_u, cur_a,
                   meta_fwd, meta_bwd, open_fwd, open_bwd, back_nodes, meeting, su_ok, notBi>>

\* a read through the dangling su faults
bi_crash ==
    /\ pc \in {"fwd_expand", "bwd_expand"} /\ engine = "bidir"
    /\ ~su_ok
    /\ pc' = "crash"
    /\ UNCHANGED <<T, hfn, params, engine, R, cur_u, cur_a, biOnly, notBi>>

\* after the while loop (bi_search.cpp:830-852): the plan is the forward
\* prefix to best_f followed by the backward suffix from best_b
bi_reconstruct ==
    /\ pc = "break" /\ engine = "bidir"
    /\ LET prefix == extract_plan(R.nodes, meeting.best_f)
           suffix == backward_chain(back_nodes, meeting.best_b)
       IN  R' = [R EXCEPT !.plan = prefix \o suffix,
                          !.solved = TRUE,
                          !.plan_cost = eval_plan_cost(T, prefix \o suffix)]
    /\ pc' = "ret_end"
    /\ UNCHANGED <<T, hfn, params, engine, cur_u, cur_a, biOnly, notBi>>

(***************************************************************************)
(* The calls of bidir_astar the model runs.                                *)
(***************************************************************************)
MaxOpsBi == 2

\* a task whose only operator has a prevail literal on the variable it
\* writes: y: 0 -> 1 while y = 1
PrevailOnWrittenTask ==
    [vars |-> VarDomains, init |-> <<0, 0>>, goal |-> <<<<1, 1>>>>,
     ops |-> <<Operator(<<<<1, 1>>>>, <<PrePost(<<>>, 1, 0, 1)>>, 1)>>, mutexes |-> <<>>]

\* a task on which x = 2 is reached first at cost 3 and later, through
\* x = 1, at cost 2; y: 0 -> 1 while x = 2 costs 2
DetourBiTask ==
    [vars |-> VarDomains, init |-> <<0, 0>>, goal |-> <<<<0, 2>>, <<1, 1>>>>,
     ops |-> <<OpPool[1], OpPool[2], OpPool[3],
               Operator(<<<<0, 2>>>>, <<PrePost(<<>>, 1, 0, 1)>>, 2)>>,
     mutexes |-> <<>>]

BiTasks ==
    {[vars |-> VarDomains, init |-> <<0, 0>>, goal |-> g, ops |-> o, mutexes |-> m] :
        g \in Goals, o \in SubSeqsUpTo(OpPool, MaxOpsBi), m \in MutexSets}
    \cup {PrevailOnWrittenTask, DetourBiTask}

\* goalcount, blind, and a table that is large where x = 1
BiHeuristics(task) ==
    { [s \in AllStates |-> goalcount(task, s)],
      [s \in AllStates |-> blind(task, s)],
      [s \in AllStates |-> IF s[1] = 1 THEN 2 ELSE 0] }

BiParamSets ==
    {[max_expansions |-> m, reopen_closed |-> r, stop_on_first_meet |-> st, h_is_integer |-> hi] :
        m \in {SmallCap, MAX_EXPANSIONS_DEFAULT}, r \in BOOLEAN, st \in BOOLEAN, hi \in BOOLEAN}

BiIdle ==
    /\ meta_fwd = <<>>
    /\ meta_bwd = <<>>
    /\ open_fwd = TwoLevelBucketPQ0
    /\ open_bwd = TwoLevelBucketPQ0
    /\ back_nodes = <<>>
    /\ meeting = Meeting0
    /\ expand_forward_turn = TRUE
    /\ su_ok = TRUE

BiInit ==
    /\ T \in BiTasks
    /\ hfn \in BiHeuristics(T)
    /\ params \in BiParamSets
    /\ engine = "bidir"
    /\ R = BiResult0
    /\ pc = "start"
    /\ cur_u = 0
    /\ cur_a = 0
    /\ meta = <<>>
    /\ open = TwoLevelBucketPQ0
    /\ open_pref = TwoLevelBucketPQ0
    /\ open_norm = TwoLevelBucketPQ0
    /\ BiIdle

(***************************************************************************)
(* Parallel shared-open A* (src/sas/parallel_SOC).  The shared objects:    *)
(* the id allocator, the closed table, the state store and the open list.  *)
(* One call of a method of a shared object under its lock, and one access  *)
(* to an atomic, is one step of a worker.                                  *)
(***************************************************************************)
\* stand for the sentinels 2^64 - 1 and 2^32 - 1, which no id reaches
UINT64_MAX == -1

UINT32_MAX == -1

PNode(id, g, h, op_id, parent) == [id |-> id, g |-> g, h |-> h, op_id |-> op_id, parent |-> parent]

Node_f(n) == n.g + n.h

\* NodeLess(a, b): a comes below b in the heap
NodeLess(a, b) ==
    IF Node_f(a) # Node_f(b) THEN Node_f(a) > Node_f(b)
    ELSE IF a.h # b.h THEN a.h > b.h
    ELSE a.id > b.id

\* std::optional without a value
NULLOPT == <<>>

\* the 16-bit limbs of 11400714819323198485, low limb first
PICK_MULT == <<31765, 32586, 31161, 40503>>

\* pick_shard(id, n) = ((id * 11400714819323198485 mod 2^64) >> 32) % n,
\* computed on 16-bit limbs
pick_shard(id, n) ==
    LET p0 == id * PICK_MULT[1]
        p1 == id * PICK_MULT[2] + (p0 \div TwoPowH)
        p2 == id * PICK_MULT[3] + (p1 \div TwoPowH)
        p3 == id * PICK_MULT[4] + (p2 \div TwoPowH)
    IN  (((p3 % TwoPowH) % n) * (TwoPowH % n) + (p2 % TwoPowH)) % n

\* the first non-empty shard in the order seed, seed + 1, ... (mod n), or -1
first_nonempty(n, seed, NonEmpty(_)) ==
    LET ts == {t \in 0..(n - 1) : NonEmpty((seed + t) % n)}
    IN  IF ts = {} THEN -1 ELSE (seed + Min(ts)) % n

(* MultiQueueOpen: qs_ is the sequence of the heaps, each the set of its nodes *)
MQ_New(num_queues) == [sid \in 1..(IF num_queues # 0 THEN num_queues ELSE 1) |-> {}]

MQ_push(qs, n) ==
    LET sid == pick_shard(n.id, Len(qs))
    IN  [qs EXCEPT ![sid + 1] = @ \cup {n}]

MQ_top(S) == CHOOSE n \in S : \A m \in S \ {n} : NodeLess(m, n)

MQ_pop(qs, seed) ==
    LET sid == first_nonempty(Len(qs), seed, LAMBDA i : At0(qs, i) # {})
    IN  IF sid = -1 THEN [o |-> qs, item |-> NULLOPT]
        ELSE [o |-> [qs EXCEPT ![sid + 1] = @ \ {MQ_top(@)}], item |-> MQ_top(At0(qs, sid))]

\* the sum of the size counters of the shards
RECURSIVE SumSizes(_)
SumSizes(sizes) == IF sizes = <<>> THEN 0 ELSE Head(sizes) + SumSizes(Tail(sizes))

MQ_size(qs) == SumSizes([i \in DOMAIN qs |-> Cardinality(qs[i])])

(* TwoLevelBucketOpen: a Shard is its bucket queue and its store of nodes *)
Shard0 == [pq |-> TwoLevelBucketPQ0, store |-> {}]

TLB_New(shards) == [sid \in 1..(IF shards # 0 THEN shards ELSE 1) |-> Shard0]

TLB_push(shards, n) ==
    LET sid == pick_shard(n.id, Len(shards))
    IN  [shards EXCEPT ![sid + 1] = [pq    |-> TL_insert(@.pq, n.id, pack_fh_asc(n.g + n.h, n.h)),
                                     store |-> @.store \cup {n}]]

TLB_size(shards) == SumSizes([i \in DOMAIN shards |-> Cardinality(shards[i].store)])

\* fault variant of TLB_pop: the node leaves the shard but nullopt is returned
TLB_pop_LosesNode(shards, seed) ==
    LET sid == first_nonempty(Len(shards), seed,
                              LAMBDA i : At0(shards, i).store # {} /\ ~TL_empty(At0(shards, i).pq))
    IN  IF TLB_size(shards) = 0 \/ sid = -1 THEN [o |-> shards, item |-> NULLOPT]
        ELSE LET sh  == At0(shards, sid)
                 em  == TL_extract_min(sh.pq)
                 out == CHOOSE n \in sh.store : n.id = em.v
             IN  [o    |-> [shards EXCEPT ![sid + 1] = [pq |-> em.q, store |-> sh.store \ {out}]],
                  item |-> NULLOPT]

TLB_pop(shards, seed) ==
    LET sid == first_nonempty(Len(shards), seed,
                              LAMBDA i : At0(shards, i).store # {} /\ ~TL_empty(At0(shards, i).pq))
    IN  IF TLB_size(shards) = 0 \/ sid = -1 THEN [o |-> shards, item |-> NULLOPT]
        ELSE LET sh  == At0(shards, sid)
                 em  == TL_extract_min(sh.pq)
                 out == CHOOSE n \in sh.store : n.id = em.v
             IN  [o    |-> [shards EXCEPT ![sid + 1] = [pq |-> em.q, store |-> sh.store \ {out}]],
                  item |-> out]

(* SharedOpen, the facade *)
SharedOpen(k, num_queues, bucket_shards) ==
    [kind_ |-> k, mq_ |-> MQ_New(num_queues), tlb_ |-> TLB_New(bucket_shards)]

SO_push(so, n) ==
    IF so.kind_ = "MultiQueue" THEN [so EXCEPT !.mq_ = MQ_push(@, n)]
    ELSE [so EXCEPT !.tlb_ = TLB_push(@, n)]

\* the open list after the pop, and the item popped
SO_pop(so, seed) ==
    IF so.kind_ = "MultiQueue"
    THEN LET r == MQ_pop(so.mq_, seed) IN [open |-> [so EXCEPT !.mq_ = r.o], item |-> r.item]
    ELSE LET r == TLB_pop(so.tlb_, seed) IN [open |-> [so EXCEPT !.tlb_ = r.o], item |-> r.item]

SO_size(so) == IF so.kind_ = "MultiQueue" THEN MQ_size(so.mq_) ELSE TLB_size(so.tlb_)

SO_empty(so) == SO_size(so) = 0

\* the number of shards the pop of so samples from
SO_shards(so) == IF so.kind_ = "MultiQueue" THEN Len(so.mq_) ELSE Len(so.tlb_)

(* ClosedTable: a function from the states it holds to their entries *)
ClosedEntry(best_g, node_id) == [best_g |-> best_g, node_id |-> node_id]

ClosedTable0 == [s \in {} |-> ClosedEntry(0, 0)]

closed_get(tbl, s) == IF s \in DOMAIN tbl THEN tbl[s] ELSE NULLOPT

\* fault variant of prune_or_update: an equal g replaces the entry
prune_or_update_Strict(tbl, s, g, node_id) ==
    IF s \notin DOMAIN tbl
    THEN [tbl |-> [x \in DOMAIN tbl \cup {s} |-> IF x = s THEN ClosedEntry(g, node_id) ELSE tbl[x]],
          ret |-> FALSE]
    ELSE IF g > tbl[s].best_g
    THEN [tbl |-> tbl, ret |-> TRUE]
    ELSE [tbl |-> [tbl EXCEPT ![s] = ClosedEntry(g, node_id)], ret |-> FALSE]

\* the table after the call, and what the call returns
prune_or_update(tbl, s, g, node_id) ==
    IF s \notin DOMAIN tbl
    THEN [tbl |-> [x \in DOMAIN tbl \cup {s} |-> IF x = s THEN ClosedEntry(g, node_id) ELSE tbl[x]],
          ret |-> FALSE]
    ELSE IF g >= tbl[s].best_g
    THEN [tbl |-> tbl, ret |-> TRUE]
    ELSE [tbl |-> [tbl EXCEPT ![s] = ClosedEntry(g, node_id)], ret |-> FALSE]

(* StateStore: a function from the ids it holds to their states; emplace
   keeps the state of an id that is present *)
StateStore0 == [i \in {} |-> <<>>]

\* fault variant of store_put: the state is not stored
store_put_Lost(st, id, s) == st

store_put(st, id, s) ==
    IF id \in DOMAIN st THEN st
    ELSE [x \in DOMAIN st \cup {id} |-> IF x = id THEN s ELSE st[x]]

(* Expander *)
check_prevail(op, s) ==
    \A i \in DOMAIN op.prevail : At0(s, Lit_var(op.prevail[i])) = Lit_val(op.prevail[i])

check_preconds(op, s) ==
    \A i \in DOMAIN op.pre_posts :
        /\ ~(op.pre_posts[i].pre >= 0 /\ At0(s, op.pre_posts[i].var) # op.pre_posts[i].pre)
        /\ \A j \in DOMAIN op.pre_posts[i].conds :
              At0(s, Lit_var(op.pre_posts[i].conds[j])) = Lit_val(op.pre_posts[i].conds[j])

\* apply_effects from the i-th pre_post on: the state and the diff
RECURSIVE apply_effects_from(_, _, _, _)
apply_effects_from(pps, s, diff, i) ==
    IF i > Len(pps) THEN [s |-> s, diff |-> diff]
    ELSE LET v       == pps[i].var
             new_val == pps[i].post
             old_val == At0(s, v)
         IN  IF old_val # new_val
             THEN apply_effects_from(pps, [s EXCEPT ![v + 1] = new_val],
                                     Append(diff, <<v, old_val>>), i + 1)
             ELSE apply_effects_from(pps, s, diff, i + 1)

apply_effects(op, s) == apply_effects_from(op.pre_posts, s, <<>>, 1)

\* revert_effects writes the old values back in the order of the diff
RECURSIVE revert_effects_from(_, _, _)
revert_effects_from(s, diff, i) ==
    IF i > Len(diff) THEN s
    ELSE revert_effects_from([s EXCEPT ![diff[i][1] + 1] = diff[i][2]], diff, i + 1)

revert_effects(s, diff) == revert_effects_from(s, diff, 1)

\* the next operator from oi on that for_each_inplace calls back for, or
\* the number of operators
next_applicable(task, s, oi) ==
    MinOr({o \in oi..(Len(task.ops) - 1) :
              check_prevail(At0(task.ops, o), s) /\ check_preconds(At0(task.ops, o), s)},
          Len(task.ops))

(***************************************************************************)
(* astar_soc and its workers (src/sas/parallel_SOC/parallel_search.cpp).   *)
(* wk[tid] holds the position of worker tid and its locals; a step of a    *)
(* worker is one access to a shared object together with the local         *)
(* computation up to the next access.  Of the per-thread statistics the    *)
(* model keeps the counters; the clocked times are left out, and           *)
(* stats_out is not given.                                                 *)
(***************************************************************************)
SearchResult0 == [solved |-> FALSE, cost |-> -1, plan_ops |-> <<>>]

ThreadStats0 ==
    [expanded |-> 0, generated |-> 0, evaluated |-> 0, duplicates_pruned |-> 0,
     reopened |-> 0, pushes |-> 0, pops |-> 0]

Worker0 ==
    [pc |-> "top", is_active |-> FALSE, item |-> NULLOPT, cur |-> NULLOPT, cur_state |-> <<>>,
     oi |-> 0, diff |-> <<>>, nxt |-> NULLOPT, prev |-> NULLOPT, S |-> ThreadStats0]

Workers == DOMAIN wk

\* the number of threads astar_soc starts
NumThreads(P) == IF P.num_threads # 0 THEN P.num_threads ELSE 1

\* astar_soc up to the start of the workers
astar_soc_init ==
    /\ pc = "start" /\ engine = "astar_soc"
    /\ LET N    == NumThreads(params)
           Q    == IF params.num_queues # 0 THEN params.num_queues ELSE N
           Sh   == N * 4
           root == PNode(0, 0, hfn[T.init], UINT32_MAX, UINT64_MAX)
       IN  /\ ids' = 1
           /\ store' = store_put(StateStore0, root.id, T.init)
           /\ closed' = prune_or_update(ClosedTable0, T.init, root.g, root.id).tbl
           /\ shared_open' = SO_push(SharedOpen(params.open_kind, Q, Sh), root)
           /\ wk' = [tid \in 0..(N - 1) |->
                        IF tid = 0 THEN [Worker0 EXCEPT !.S.pushes = 1] ELSE Worker0]
    /\ done' = FALSE
    /\ goal_node' = UINT64_MAX
    /\ active_workrs' = 0
    /\ pc' = "join"
    /\ UNCHANGED <<T, hfn, params, engine, R, notPar>>

\* the variables a step of a worker may leave alone besides those it names
parFrame == <<T, hfn, params, engine, R, pc, notPar>>

\* the top of the worker loop: done is read, then the clock
w_top(tid) ==
    /\ wk[tid].pc = "top"
    /\ \/ /\ done
          /\ wk' = [wk EXCEPT ![tid].pc = "exit"]
          /\ UNCHANGED done
       \/ /\ ~done /\ params.time_limit_ms > 0
          /\ done' = TRUE
          /\ wk' = [wk EXCEPT ![tid].pc = "exit"]
       \/ /\ ~done
          /\ wk' = [wk EXCEPT ![tid].pc = "pop"]
          /\ UNCHANGED done
    /\ UNCHANGED <<ids, closed, store, shared_open, goal_node, active_workrs, parFrame>>

\* open.pop() with the random seed of the call
w_pop(tid) ==
    /\ wk[tid].pc = "pop"
    /\ \E seed \in 0..(SO_shards(shared_open) - 1) :
          LET r == SO_pop(shared_open, seed)
          IN  /\ shared_open' = r.open
              /\ wk' = IF r.item = NULLOPT
                       THEN [wk EXCEPT ![tid].pc = "idle", ![tid].item = NULLOPT]
                       ELSE [wk EXCEPT ![tid].pc = "active", ![tid].item = r.item,
                                       ![tid].S.pops = @ + 1]
    /\ UNCHANGED <<ids, closed, store, done, goal_node, active_workrs, parFrame>>

\* become_idle() after a pop that returned nothing
w_become_idle(tid) ==
    /\ wk[tid].pc = "idle"
    /\ IF wk[tid].is_active
       THEN /\ active_workrs' = active_workrs - 1
            /\ wk' = [wk EXCEPT ![tid].pc = "check1", ![tid].is_active = FALSE]
       ELSE /\ wk' = [wk EXCEPT ![tid].pc = "check1"]
            /\ UNCHANGED active_workrs
    /\ UNCHANGED <<ids, closed, store, shared_open, done, goal_node, parFrame>>

\* open.empty() in the conditions of lines 129 and 140
w_check_empty(tid) ==
    /\ wk[tid].pc \in {"check1", "check2"}
    /\ wk' = [wk EXCEPT ![tid].pc =
                 IF ~SO_empty(shared_open) THEN "top"
                 ELSE IF wk[tid].pc = "check1" THEN "check1_active" ELSE "check2_active"]
    /\ UNCHANGED <<ids, closed, store, shared_open, done, goal_node, active_workrs, parFrame>>

\* fault variant of w_check_active: the second check never leads to
\* done.store
w_check_active_NeverDone(tid) ==
    /\ wk[tid].pc \in {"check1_active", "check2_active"}
    /\ wk' = [wk EXCEPT ![tid].pc =
                 IF active_workrs # 0 THEN "top"
                 ELSE IF wk[tid].pc = "check1_active" THEN "backoff" ELSE "top"]
    /\ UNCHANGED <<ids, closed, store, shared_open, done, goal_node, active_workrs, parFrame>>

\* active_workrs.load() == 0 in the conditions of lines 129 and 140
w_check_active(tid) ==
    /\ wk[tid].pc \in {"check1_active", "check2_active"}
    /\ wk' = [wk EXCEPT ![tid].pc =
                 IF active_workrs # 0 THEN "top"
                 ELSE IF wk[tid].pc = "check1_active" THEN "backoff" ELSE "done_exhausted"]
    /\ UNCHANGED <<ids, closed, store, shared_open, done, goal_node, active_workrs, parFrame>>

\* the retry loop of lines 133-138: it writes nothing and ends after 32
\* pauses, or earlier, at the condition of line 140
w_backoff(tid) ==
    /\ wk[tid].pc = "backoff"
    /\ wk' = [wk EXCEPT ![tid].pc = "check2"]
    /\ UNCHANGED <<ids, closed, store, shared_open, done, goal_node, active_workrs, parFrame>>

\* done.store(true) of line 141 and of line 171
w_set_done(tid) ==
    /\ wk[tid].pc \in {"done_exhausted", "done_goal"}
    /\ done' = TRUE
    /\ wk' = [wk EXCEPT ![tid].pc = "exit"]
    /\ UNCHANGED <<ids, closed, store, shared_open, goal_node, active_workrs, parFrame>>

\* become_active() after a pop that returned a node
w_become_active(tid) ==
    /\ wk[tid].pc = "active"
    /\ active_workrs' = IF wk[tid].is_active THEN active_workrs ELSE active_workrs + 1
    /\ wk' = [wk EXCEPT ![tid].pc = "get", ![tid].is_active = TRUE,
                        ![tid].cur = wk[tid].item, ![tid].S.expanded = @ + 1]
    /\ UNCHANGED <<ids, closed, store, shared_open, done, goal_node, parFrame>>

\* for_each_inplace on s from operator oi on, up to the next callback: the
\* worker w at the callback, or back at the top of its loop
to_callback(w, s, oi) ==
    LET o == next_applicable(T, s, oi)
    IN  IF o = Len(T.ops)
        THEN [w EXCEPT !.pc = "top", !.cur_state = s, !.oi = o, !.diff = <<>>]
        ELSE LET e == apply_effects(At0(T.ops, o), s)
             IN  [w EXCEPT !.pc = "cb_alloc", !.cur_state = e.s, !.oi = o, !.diff = e.diff]

\* the callback returns: the effects are reverted and the loop goes on
from_callback(w) == to_callback(w, revert_effects(w.cur_state, w.diff), w.oi + 1)

\* store.get(cur.id, cur_state), the goal test, and the way to the first callback
w_get(tid) ==
    /\ wk[tid].pc = "get"
    /\ LET w == wk[tid]
       IN  wk' = [wk EXCEPT ![tid] =
                     IF w.cur.id \notin DOMAIN store THEN [w EXCEPT !.pc = "top"]
                     ELSE IF is_goal(T, store[w.cur.id])
                     THEN [w EXCEPT !.pc = "post_goal", !.cur_state = store[w.cur.id]]
                     ELSE to_callback(w, store[w.cur.id], 0)]
    /\ UNCHANGED <<ids, closed, store, shared_open, done, goal_node, active_workrs, parFrame>>

\* goal_node.store(cur.id)
w_post_goal(tid) ==
    /\ wk[tid].pc = "post_goal"
    /\ goal_node' = wk[tid].cur.id
    /\ wk' = [wk EXCEPT ![tid].pc = "done_goal"]
    /\ UNCHANGED <<ids, closed, store, shared_open, done, active_workrs, parFrame>>

\* the callback: ids.alloc() and the fields of nxt but h
w_cb_alloc(tid) ==
    /\ wk[tid].pc = "cb_alloc"
    /\ ids' = ids + 1
    /\ LET w == wk[tid]
       IN  wk' = [wk EXCEPT ![tid].pc = "cb_get",
                            ![tid].nxt = PNode(ids, w.cur.g + At0(T.ops, w.oi).cost, 0, w.oi, w.cur.id),
                            ![tid].S.generated = @ + 1]
    /\ UNCHANGED <<closed, store, shared_open, done, goal_node, active_workrs, parFrame>>

\* prev = closed.get(succ)
w_cb_get(tid) ==
    /\ wk[tid].pc = "cb_get"
    /\ wk' = [wk EXCEPT ![tid].pc = "cb_prune", ![tid].prev = closed_get(closed, wk[tid].cur_state)]
    /\ UNCHANGED <<ids, closed, store, shared_open, done, goal_node, active_workrs, parFrame>>

\* closed.prune_or_update(succ, nxt.g, nxt.id), and on no prune the heuristic
w_cb_prune(tid) ==
    /\ wk[tid].pc = "cb_prune"
    /\ LET w == wk[tid]
           r == prune_or_update(closed, w.cur_state, w.nxt.g, w.nxt.id)
       IN  /\ closed' = r.tbl
           /\ wk' = [wk EXCEPT ![tid] =
                        IF r.ret
                        THEN from_callback([w EXCEPT !.S.duplicates_pruned = @ + 1])
                        ELSE [w EXCEPT !.pc = "cb_put",
                                       !.nxt.h = hfn[w.cur_state],
                                       !.S.reopened = IF w.prev # NULLOPT THEN @ + 1 ELSE @,
                                       !.S.evaluated = @ + 1]]
    /\ UNCHANGED <<ids, store, shared_open, done, goal_node, active_workrs, parFrame>>

\* store.put(nxt.id, succ)
w_cb_put(tid) ==
    /\ wk[tid].pc = "cb_put"
    /\ store' = store_put(store, wk[tid].nxt.id, wk[tid].cur_state)
    /\ wk' = [wk EXCEPT ![tid].pc = "cb_push"]
    /\ UNCHANGED <<ids, closed, shared_open, done, goal_node, active_workrs, parFrame>>

\* open.push(nxt), the return of the callback
w_cb_push(tid) ==
    /\ wk[tid].pc = "cb_push"
    /\ shared_open' = SO_push(shared_open, wk[tid].nxt)
    /\ wk' = [wk EXCEPT ![tid] = from_callback([wk[tid] EXCEPT !.S.pushes = @ + 1])]
    /\ UNCHANGED <<ids, closed, store, done, goal_node, active_workrs, parFrame>>

\* after the loop: a worker still active leaves the count
w_exit(tid) ==
    /\ wk[tid].pc = "exit"
    /\ active_workrs' = IF wk[tid].is_active THEN active_workrs - 1 ELSE active_workrs
    /\ wk' = [wk EXCEPT ![tid].pc = "joined"]
    /\ UNCHANGED <<ids, closed, store, shared_open, done, goal_node, parFrame>>

\* all workers are joined: the result
astar_soc_return ==
    /\ pc = "join" /\ engine = "astar_soc"
    /\ \A tid \in Workers : wk[tid].pc = "joined"
    /\ R' = IF goal_node # UINT64_MAX
            THEN [solved |-> TRUE, cost |-> 0, plan_ops |-> <<>>]
            ELSE SearchResult0
    /\ pc' = "done"
    /\ UNCHANGED <<T, hfn, params, engine, parOnly, notPar>>

(***************************************************************************)
(* The calls of astar_soc the model runs.                                  *)
(***************************************************************************)
MaxThreads == 2

MaxOpsPar == 2

\* a task with the mutex group {x = 2, y = 1}, whose goal lies in the group
MutexParTask ==
    [vars |-> VarDomains, init |-> <<0, 0>>, goal |-> <<<<0, 2>>, <<1, 1>>>>,
     ops |-> <<OpPool[2], OpPool[4]>>, mutexes |-> <<[lits |-> <<<<0, 2>>, <<1, 1>>>>]>>]

\* a task on which the root has two successors with the goal state x = 2,
\* the second with the lower g
TwoGoalNodesParTask ==
    [vars |-> VarDomains, init |-> <<0, 0>>, goal |-> <<<<0, 2>>>>,
     ops |-> <<OpPool[2], Operator(<<>>, <<PrePost(<<>>, 0, -1, 2)>>, 1)>>, mutexes |-> <<>>]

ParTasks ==
    {[vars |-> VarDomains, init |-> <<0, 0>>, goal |-> g, ops |-> o, mutexes |-> <<>>] :
        g \in Goals, o \in SubSeqsUpTo(OpPool, MaxOpsPar)}
    \cup {MutexParTask, TwoGoalNodesParTask}

SearchParamSets ==
    {[num_threads |-> n, open_kind |-> k, num_queues |-> 0, time_limit_ms |-> tl,
      num_bucket_shards |-> 0, num_k_select |-> 2] :
        n \in 1..MaxThreads, k \in {"MultiQueue", "TwoLevelBucket"}, tl \in {-1, 1}}

ParIdle ==
    /\ ids = 0
    /\ closed = ClosedTable0
    /\ store = StateStore0
    /\ shared_open = SharedOpen("MultiQueue", 0, 0)
    /\ done = FALSE
    /\ goal_node = UINT64_MAX
    /\ active_workrs = 0
    /\ wk = <<>>

\* astar_soc evaluates Heuristic::goalcount()
ParInit ==
    /\ T \in ParTasks
    /\ hfn = [s \in AllStates |-> goalcount(T, s)]
    /\ params \in SearchParamSets
    /\ engine = "astar_soc"
    /\ R = SearchResult0
    /\ pc = "start"
    /\ cur_u = 0
    /\ cur_a = 0
    /\ meta = <<>>
    /\ open = TwoLevelBucketPQ0
    /\ open_pref = TwoLevelBucketPQ0
    /\ open_norm = TwoLevelBucketPQ0
    /\ BiIdle
    /\ ParIdle

\* a step of worker tid
WorkerStep(tid) ==
    /\ tid \in DOMAIN wk
    /\ \/ w_top(tid) \/ w_pop(tid) \/ w_become_idle(tid) \/ w_check_empty(tid)
       \/ w_check_active(tid) \/ w_backoff(tid) \/ w_set_done(tid) \/ w_become_active(tid)
       \/ w_get(tid) \/ w_post_goal(tid) \/ w_cb_alloc(tid) \/ w_cb_get(tid)
       \/ w_cb_prune(tid) \/ w_cb_put(tid) \/ w_cb_push(tid) \/ w_exit(tid)

\* worker tid has not left its loop: one of its steps is enabled
WorkerRunning(tid) == tid \in DOMAIN wk /\ wk[tid].pc # "joined"

MainRunning ==
    \/ pc = "start"
    \/ pc = "join" /\ \A tid \in Workers : wk[tid].pc = "joined"

\* fair scheduling: the main thread and every worker thread run on (weak
\* fairness, written as []<>(not enabled) \/ []<>(step))
ParFair ==
    /\ []<>(~MainRunning) \/ []<><<astar_soc_init \/ astar_soc_return>>_vars
    /\ \A tid \in 0..(MaxThreads - 1) :
          []<>(~WorkerRunning(tid)) \/ []<><<WorkerStep(tid)>>_vars

(***************************************************************************)
(* Functions and methods driven on their own: fcall is the call made last  *)
(* (op, args, ret), fhist the arguments of the calls so far.               *)
(***************************************************************************)
NoFCall == [op |-> "none", args |-> <<>>, ret |-> <<>>]

NoLock == [kind |-> "none"]

LockIdle == lk = NoLock /\ th = <<>>

UnitIdle == fcall = NoFCall /\ fhist = {} /\ LockIdle /\ BudgetIdle

(***************************************************************************)
(* ClosedTable driven on its own: any sequence of prune_or_update calls.   *)
(* Each call holds the unique_lock of the stripe of s from its first to    *)
(* its last statement, so a call is one step.                              *)
(***************************************************************************)
MaxG == 2

MaxNodeId == 1

ClosedKeys == {<<0, 0>>, <<2, 1>>}

ClosedInit == closed = ClosedTable0 /\ fcall = NoFCall /\ fhist = {} /\ BudgetIdle /\ LockIdle

closed_prune_or_update ==
    \E s \in ClosedKeys, g \in 0..MaxG, node_id \in 0..MaxNodeId :
        LET r == prune_or_update(closed, s, g, node_id)
        IN  /\ closed' = r.tbl
            /\ fcall' = [op |-> "prune_or_update", args |-> <<s, g, node_id>>, ret |-> r.ret]
            /\ fhist' = fhist \cup {<<s, g>>}
            /\ UNCHANGED <<pkVars, pqVars, seqVars, biOnly,
                           ids, store, shared_open, done, goal_node, active_workrs, wk, lockVars, budget>>

(***************************************************************************)
(* The undo log of the sequential engines (sas_search.cpp:125-147,         *)
(* bi_search.cpp:187-223): a sequence of <<var, old_value>>.  A successor  *)
(* visit block takes the mark, applies the operator to work, and on every  *)
(* exit of the block the destructor of UndoGuard calls undo_to.            *)
(***************************************************************************)
undo_mark(u) == Len(u)

\* the assignments var := post from the i-th pre_post on, each change logged
RECURSIVE apply_inplace_from(_, _, _, _)
apply_inplace_from(pps, s, u, i) ==
    IF i > Len(pps) THEN [s |-> s, u |-> u]
    ELSE IF At0(s, pps[i].var) # pps[i].post
    THEN apply_inplace_from(pps,
                            [s EXCEPT ![pps[i].var + 1] = pps[i].post],
                            Append(u, <<pps[i].var, At0(s, pps[i].var)>>),
                            i + 1)
    ELSE apply_inplace_from(pps, s, u, i + 1)

\* apply_inplace(T, op, s, u): the state and the log it leaves
apply_inplace_undo(op, s, u) == apply_inplace_from(op.pre_posts, s, u, 1)

\* the entries i, i - 1, ..., mark + 1 of u written back to s
RECURSIVE undo_back(_, _, _, _)
undo_back(s, u, mark, i) ==
    IF i <= mark THEN s
    ELSE undo_back([s EXCEPT ![u[i][1] + 1] = u[i][2]], u, mark, i - 1)

\* the entries mark + 1, ..., Len(u) of u written back to s, oldest first
RECURSIVE undo_forth(_, _, _)
undo_forth(s, u, i) ==
    IF i > Len(u) THEN s
    ELSE undo_forth([s EXCEPT ![u[i][1] + 1] = u[i][2]], u, i + 1)

\* fault variant of undo_to: the log is replayed oldest entry first
undo_to_OldestFirst(s, u, mark) ==
    [s |-> undo_forth(s, u, mark + 1), u |-> SubSeq(u, 1, mark)]

\* undo_to(s, u, mark): the state and the log it leaves (mark <= u.size())
undo_to(s, u, mark) ==
    [s |-> undo_back(s, u, mark, Len(u)), u |-> SubSeq(u, 1, mark)]

\* operators that write a variable more than once, besides those of OpPool
UndoOps ==
    Range(OpPool) \cup
    { Operator(<<>>, <<PrePost(<<>>, 0, -1, 1), PrePost(<<>>, 0, -1, 2)>>, 1),
      Operator(<<>>, <<PrePost(<<>>, 0, 0, 1), PrePost(<<>>, 1, -1, 1), PrePost(<<>>, 0, -1, 0)>>, 1),
      Operator(<<>>, <<PrePost(<<>>, 1, -1, 1), PrePost(<<>>, 0, -1, 2),
                       PrePost(<<>>, 1, -1, 0), PrePost(<<>>, 0, -1, 1)>>, 1) }

\* the logs a block is entered with: empty in the engines (undo.clear())
UndoLogs == {<<>>, <<<<0, 1>>>>, <<<<1, 0>>, <<0, 2>>>>}

UndoTask == [vars |-> VarDomains, init |-> <<0, 0>>, goal |-> <<>>, ops |-> <<>>, mutexes |-> <<>>]

UndoInit == fcall = NoFCall /\ fhist = {} /\ BudgetIdle /\ LockIdle

unitFrame == <<pkVars, pqVars, seqVars, biOnly, parOnly, lockVars, budget>>

\* work = su; mark = undo_mark(undo); UndoGuard ug{work, undo, mark};
\* apply_inplace(T, op, work, undo)
visit_apply ==
    /\ fcall.op \in {"none", "undo_to"}
    /\ \E op \in UndoOps, su \in AllStates, u \in UndoLogs :
          /\ is_applicable(UndoTask, su, op)
          /\ fcall' = [op   |-> "apply_inplace",
                       args |-> [op |-> op, su |-> su, undo |-> u, mark |-> undo_mark(u)],
                       ret  |-> apply_inplace_undo(op, su, u)]
    /\ UNCHANGED <<fhist, unitFrame>>

\* the block is left: ~UndoGuard() calls undo_to(work, undo, mark)
visit_exit ==
    /\ fcall.op = "apply_inplace"
    /\ fcall' = [fcall EXCEPT !.op = "undo_to",
                              !.ret = undo_to(fcall.ret.s, fcall.ret.u, fcall.args.mark)]
    /\ UNCHANGED <<fhist, unitFrame>>

(***************************************************************************)
(* Expander::for_each_inplace driven on its own, with a callback that      *)
(* records its arguments.                                                  *)
(***************************************************************************)
\* for_each_inplace from operator oi on: the state it leaves in s and the
\* arguments <<op_id, add_cost, succ>> of the callbacks in their order
RECURSIVE for_each_inplace_from(_, _, _, _)
for_each_inplace_from(task, s, oi, calls) ==
    IF oi >= Len(task.ops) THEN [s |-> s, calls |-> calls]
    ELSE LET op == At0(task.ops, oi)
         IN  IF ~check_prevail(op, s) \/ ~check_preconds(op, s)
             THEN for_each_inplace_from(task, s, oi + 1, calls)
             ELSE LET e == apply_effects(op, s)
                  IN  for_each_inplace_from(task, revert_effects(e.s, e.diff), oi + 1,
                                            Append(calls, <<oi, op.cost, e.s>>))

for_each_inplace(task, s) == for_each_inplace_from(task, s, 0, <<>>)

\* operators of the pool and operators that write a variable twice
ExpanderOps ==
    << OpPool[1], OpPool[4], OpPool[5], OpPool[7],
       Operator(<<>>, <<PrePost(<<>>, 0, -1, 1), PrePost(<<>>, 0, -1, 2)>>, 1),
       Operator(<<>>, <<PrePost(<<>>, 1, 0, 1), PrePost(<<>>, 0, -1, 2), PrePost(<<>>, 1, -1, 0)>>, 1),
       Operator(<<>>, <<PrePost(<<>>, 0, 0, 2), PrePost(<<>>, 1, -1, 1)>>, 2) >>

MaxOpsExpander == 2

ExpanderTasks ==
    {[vars |-> VarDomains, init |-> <<0, 0>>, goal |-> <<>>, ops |-> o, mutexes |-> <<>>] :
        o \in SubSeqsUpTo(ExpanderOps, MaxOpsExpander)}

ExpanderInit == fcall = NoFCall /\ fhist = {} /\ BudgetIdle /\ LockIdle

expander_for_each_inplace ==
    /\ \E task \in ExpanderTasks, s \in AllStates :
          fcall' = [op |-> "for_each_inplace", args |-> [T |-> task, s |-> s],
                    ret |-> for_each_inplace(task, s)]
    /\ UNCHANGED <<fhist, unitFrame>>


(***************************************************************************)
(* main of the planner (src/sas/main.cpp) from read_file to the call of    *)
(* the engine: the task checks between the two, the catch block that ends  *)
(* the process on a throw, and the dispatch on algo and hname.  fcall      *)
(* holds the position of main: the task read and whether the checks let    *)
(* it pass.                                                                 *)
(***************************************************************************)
chk_var(task, v) == v >= 0 /\ v < Len(task.vars)

chk_val(task, v, val) == chk_var(task, v) /\ val >= 0 /\ val < At0(task.vars, v)

\* TRUE when no check throws
validate_task(task) ==
    /\ Len(task.init) = Len(task.vars)
    /\ \A i \in DOMAIN task.goal : chk_val(task, Lit_var(task.goal[i]), Lit_val(task.goal[i]))
    /\ \A oi \in DOMAIN task.ops :
          LET op == task.ops[oi]
          IN  /\ \A i \in DOMAIN op.prevail :
                    chk_val(task, Lit_var(op.prevail[i]), Lit_val(op.prevail[i]))
              /\ \A i \in DOMAIN op.pre_posts :
                    LET pp == op.pre_posts[i]
                    IN  /\ \A j \in DOMAIN pp.conds :
                              chk_val(task, Lit_var(pp.conds[j]), Lit_val(pp.conds[j]))
                        /\ chk_var(task, pp.var)
                        /\ (pp.pre >= 0 => chk_val(task, pp.var, pp.pre))
                        /\ chk_val(task, pp.var, pp.post)

EXIT_FATAL == 9

\* the files read_file can hand to main: state vectors, goals and operators
\* with ids and values inside and outside their ranges
MainInits == {<<0, 0>>, <<1, 0>>, <<0, 2>>, <<3, 0>>, <<-1, 0>>, <<0>>}

MainGoals == {<<<<0, 2>>>>, <<<<1, 1>>>>, <<<<2, 0>>>>, <<<<0, 3>>>>, <<<<-1, 0>>>>}

MainOps ==
    { <<>>,
      <<OpPool[1], OpPool[3]>>,
      <<OpPool[2], OpPool[4]>>,
      <<Operator(<<>>, <<PrePost(<<>>, 0, -2, 2)>>, 1)>>,
      <<Operator(<<>>, <<PrePost(<<>>, 0, 3, 2)>>, 1)>>,
      <<Operator(<<>>, <<PrePost(<<>>, 0, 0, 3)>>, 1)>>,
      <<Operator(<<>>, <<PrePost(<<>>, 0, 0, -1)>>, 1)>>,
      <<Operator(<<>>, <<PrePost(<<>>, 2, 0, 1)>>, 1)>>,
      <<Operator(<<<<1, 2>>>>, <<PrePost(<<>>, 0, 0, 1)>>, 1)>>,
      <<Operator(<<>>, <<PrePost(<<<<0, 3>>>>, 1, -1, 1)>>, 1)>> }

MainTasks ==
    {[vars |-> VarDomains, init |-> i, goal |-> g, ops |-> o, mutexes |-> <<>>] :
        i \in MainInits, g \in MainGoals, o \in MainOps}

\* the states a task that passed the checks can be in
MainStates == {<<x, y>> : x \in -1..3, y \in 0..2}

MainInit == fcall = NoFCall /\ fhist = {} /\ BudgetIdle /\ LockIdle

mainFrame == <<pkVars, pqVars, biOnly, parOnly, lockVars, budget>>

\* read_file and the checks on the task it returns
main_validate_task ==
    /\ fcall.op = "none"
    /\ \E task \in MainTasks :
          fcall' = [op |-> "validate_task", args |-> <<task>>, ret |-> validate_task(task)]
    /\ UNCHANGED <<fhist, seqVars, mainFrame>>

\* a check threw: catch (const std::exception&) returns 9
main_catch ==
    /\ fcall.op = "validate_task" /\ ~fcall.ret
    /\ fcall' = [fcall EXCEPT !.op = "return", !.ret = EXIT_FATAL]
    /\ UNCHANGED <<fhist, seqVars, mainFrame>>

\* the checks passed: astar or gbfs is called on T with goalcount or blind
\* and the default Params
main_call_engine ==
    /\ fcall.op = "validate_task" /\ fcall.ret
    /\ pc = "idle"
    /\ T' = fcall.args[1]
    /\ engine' \in {"astar", "gbfs"}
    /\ hfn' \in {[s \in MainStates |-> goalcount(fcall.args[1], s)],
                 [s \in MainStates |-> blind(fcall.args[1], s)]}
    /\ pc' = "start"
    /\ UNCHANGED <<params, R, meta, open, open_pref, open_norm, cur_u, cur_a,
                   fcall, fhist, mainFrame>>


(***************************************************************************)
(* The locks of include/sas/parallel_SOC/concurrency.hpp driven on their   *)
(* own: NumLockThreads threads that call lock() and unlock() on one lock   *)
(* any number of times.  A step of a thread is one operation on an atomic  *)
(* of the lock; Backoff::pause() touches nothing shared and is part of     *)
(* the step before it.  th[t].pc is "out" outside lock() and unlock(),     *)
(* "cs" between the return from lock() and the call of unlock().           *)
(***************************************************************************)
NumLockThreads == 3

LockThreads == 0..(NumLockThreads - 1)

Thread0 == [pc |-> "out", my |-> 0]

InCS == {t \in DOMAIN th : th[t].pc = "cs"}

lockFrame == <<pkVars, pqVars, seqVars, biOnly, parOnly, fcall, fhist, budget>>

(* SpinLock *)
SpinInit ==
    /\ lk = [kind |-> "spin", flag |-> FALSE]
    /\ th = [t \in LockThreads |-> Thread0]
    /\ fcall = NoFCall /\ fhist = {} /\ BudgetIdle

\* lock() is called: Backoff bk
spin_lock(t) ==
    /\ lk.kind = "spin" /\ th[t].pc = "out"
    /\ th' = [th EXCEPT ![t].pc = "tas_outer"]
    /\ UNCHANGED <<lk, lockFrame>>

\* if (!flag.test_and_set(acquire)) return;
spin_tas_outer(t) ==
    /\ lk.kind = "spin" /\ th[t].pc = "tas_outer"
    /\ lk' = [lk EXCEPT !.flag = TRUE]
    /\ th' = [th EXCEPT ![t].pc = IF lk.flag THEN "tas_inner" ELSE "cs"]
    /\ UNCHANGED lockFrame

\* while (flag.test_and_set(relaxed))
spin_tas_inner(t) ==
    /\ lk.kind = "spin" /\ th[t].pc = "tas_inner"
    /\ lk' = [lk EXCEPT !.flag = TRUE]
    /\ th' = [th EXCEPT ![t].pc = IF lk.flag THEN "clear" ELSE "tas_outer"]
    /\ UNCHANGED lockFrame

\* flag.clear(relaxed); bk.pause();
spin_clear(t) ==
    /\ lk.kind = "spin" /\ th[t].pc = "clear"
    /\ lk' = [lk EXCEPT !.flag = FALSE]
    /\ th' = [th EXCEPT ![t].pc = "tas_inner"]
    /\ UNCHANGED lockFrame

\* unlock(): flag.clear(release)
spin_unlock(t) ==
    /\ lk.kind = "spin" /\ th[t].pc = "cs"
    /\ lk' = [lk EXCEPT !.flag = FALSE]
    /\ th' = [th EXCEPT ![t].pc = "out"]
    /\ UNCHANGED lockFrame

\* the test_and_set of line 61 that finds the flag clear
spin_acquire(t) == spin_tas_outer(t) /\ ~lk.flag

\* a thread inside lock() or between lock() and unlock() runs on, and a
\* thread that again and again reaches line 61 with the flag clear does not
\* lose the race for it every time
SpinFair ==
    \A t \in LockThreads :
        /\ WF_vars(spin_tas_outer(t))
        /\ SF_vars(spin_acquire(t))
        /\ WF_vars(spin_tas_inner(t))
        /\ WF_vars(spin_clear(t))
        /\ WF_vars(spin_unlock(t))

(* TicketLock *)
\* the tickets the threads draw in a run; next_ and cur_ are uint32_t and
\* stay far below their wrap
MaxTickets == 5

\* fault variant of ticket_is_mine: the holder of the next ticket enters too
ticket_is_mine_OrNext(cur, my) == cur = my \/ cur + 1 = my

\* cur_.load(acquire) != my fails
ticket_is_mine(cur, my) == cur = my

\* entered and unlocked record the tickets in the order in which their
\* holders returned from lock(), and the tickets whose holders called unlock()
TicketInit ==
    /\ lk = [kind |-> "ticket", next_ |-> 0, cur_ |-> 0, entered |-> <<>>, unlocked |-> {}]
    /\ th = [t \in LockThreads |-> Thread0]
    /\ fcall = NoFCall /\ fhist = {} /\ BudgetIdle

\* lock(): my = next_.fetch_add(1)
ticket_lock(t) ==
    /\ lk.kind = "ticket" /\ th[t].pc = "out"
    /\ lk.next_ < MaxTickets
    /\ lk' = [lk EXCEPT !.next_ = @ + 1]
    /\ th' = [th EXCEPT ![t].pc = "wait", ![t].my = lk.next_]
    /\ UNCHANGED lockFrame

\* the load of cur_ that ends the while loop; a load of another value only
\* pauses
ticket_enter(t) ==
    /\ lk.kind = "ticket" /\ th[t].pc = "wait"
    /\ ticket_is_mine(lk.cur_, th[t].my)
    /\ lk' = [lk EXCEPT !.entered = Append(@, th[t].my)]
    /\ th' = [th EXCEPT ![t].pc = "cs"]
    /\ UNCHANGED lockFrame

\* unlock(): cur_.fetch_add(1)
ticket_unlock(t) ==
    /\ lk.kind = "ticket" /\ th[t].pc = "cs"
    /\ lk' = [lk EXCEPT !.cur_ = @ + 1, !.unlocked = @ \cup {th[t].my}]
    /\ th' = [th EXCEPT ![t].pc = "out"]
    /\ UNCHANGED lockFrame


(***************************************************************************)
(* The packed-bit STRIPS state with undo (src/strips.cpp,                  *)
(* include/strips.hpp) driven on its own.  bits is the vector of 64-bit    *)
(* words, each held as the set of the positions of its bits that are 1;    *)
(* an Undo is its vector flipped.  fcall.ret holds the state and the log   *)
(* after the call made last, fhist the marks taken with the state at the   *)
(* time of each.                                                           *)
(***************************************************************************)
test_bit(b, i) == (i % WORD_BITS) \in b[(i \div WORD_BITS) + 1]

set_bit(b, i) == [b EXCEPT ![(i \div WORD_BITS) + 1] = @ \cup {i % WORD_BITS}]

clear_bit(b, i) == [b EXCEPT ![(i \div WORD_BITS) + 1] = @ \ {i % WORD_BITS}]

\* bits[f >> 6] ^= 1ull << (f & 63)
xor_bit(b, i) == IF test_bit(b, i) THEN clear_bit(b, i) ELSE set_bit(b, i)

\* the loop over a.del from the i-th on
RECURSIVE strips_del_from(_, _, _, _)
strips_del_from(del, b, flipped, i) ==
    IF i > Len(del) THEN [bits |-> b, flipped |-> flipped]
    ELSE IF test_bit(b, del[i])
    THEN strips_del_from(del, clear_bit(b, del[i]), Append(flipped, del[i]), i + 1)
    ELSE strips_del_from(del, b, flipped, i + 1)

\* the loop over a.add from the i-th on
RECURSIVE strips_add_from(_, _, _, _)
strips_add_from(add, b, flipped, i) ==
    IF i > Len(add) THEN [bits |-> b, flipped |-> flipped]
    ELSE IF ~test_bit(b, add[i])
    THEN strips_add_from(add, set_bit(b, add[i]), Append(flipped, add[i]), i + 1)
    ELSE strips_add_from(add, b, flipped, i + 1)

\* apply_inplace(st, a, s, u) of strips.cpp: s.bits and u.flipped after it
strips_apply_inplace(a, b, flipped) ==
    LET d == strips_del_from(a.del, b, flipped, 1)
    IN  strips_add_from(a.add, d.bits, d.flipped, 1)

\* the loop of undo_to from position i (counted from 1) down to mark + 1
RECURSIVE strips_undo_from(_, _, _, _)
strips_undo_from(b, flipped, mark, i) ==
    IF i <= mark THEN b
    ELSE strips_undo_from(xor_bit(b, flipped[i]), flipped, mark, i - 1)

\* undo_to(s, u, mark) of strips.cpp: s.bits and u.flipped after it
strips_undo_to(b, flipped, mark) ==
    [bits |-> strips_undo_from(b, flipped, mark, Len(flipped)), flipped |-> flipped]

\* the facts 0 and 1 of the first word and fact 64 of the second
StripsActions ==
    { [del |-> <<0>>, add |-> <<1>>],
      [del |-> <<>>, add |-> <<0, 64>>],
      [del |-> <<64, 1>>, add |-> <<0>>],
      [del |-> <<0>>, add |-> <<0>>] }

StripsStates == { <<{}, {}>>, <<{0}, {}>>, <<{1}, {0}>> }

MaxFlipped == 4

StripsInit ==
    /\ \E b \in StripsStates :
          fcall = [op |-> "make_init_state", args |-> <<>>, ret |-> [bits |-> b, flipped |-> <<>>]]
    /\ fhist = {} /\ BudgetIdle
    /\ LockIdle

StripsCalls == {"make_init_state", "apply_inplace", "undo_to"}

\* mark = undo_mark(u); apply_inplace(st, a, s, u)
strips_apply ==
    /\ fcall.op \in StripsCalls
    /\ \E a \in StripsActions :
          \E r \in {strips_apply_inplace(a, fcall.ret.bits, fcall.ret.flipped)} :
              /\ Len(r.flipped) <= MaxFlipped
              /\ fcall' = [op |-> "apply_inplace", args |-> [a |-> a], ret |-> r]
              /\ fhist' = fhist \cup {<<undo_mark(fcall.ret.flipped), fcall.ret.bits>>}
    /\ UNCHANGED unitFrame

\* undo_to(s, u, mark) with a mark taken before; the marks beyond it lapse
strips_undo ==
    /\ fcall.op \in StripsCalls
    /\ \E mk \in fhist :
          /\ mk[1] <= Len(fcall.ret.flipped)
          /\ fcall' = [op |-> "undo_to", args |-> [mark |-> mk[1], s |-> mk[2]],
                       ret |-> strips_undo_to(fcall.ret.bits, fcall.ret.flipped, mk[1])]
          /\ fhist' = {x \in fhist : x[1] <= mk[1]}
    /\ UNCHANGED unitFrame


(***************************************************************************)
(* The STRIPS A*, integer mode (src/search.cpp, astar, with the state      *)
(* functions of src/strips.cpp).  A StripsState is its vector of words,    *)
(* each the set of the positions of its 1 bits; the open list is the       *)
(* single-level BucketPQ, keyed by the 32-bit key KeyInt(pack_fh_asc).     *)
(* The engine uses the variables of the SAS engines: T is the StripsTask,  *)
(* meta the map from node ids to MetaI (ids are dense from 0).             *)
(***************************************************************************)
StripsAction(pre_pos, pre_neg, add, del, cost) ==
    [pre_pos |-> pre_pos, pre_neg |-> pre_neg, add |-> add, del |-> del, cost |-> cost]

nwords(n) == (n + WORD_BITS - 1) \div WORD_BITS

\* set_bit for the facts fs[i..]
RECURSIVE set_bits_from(_, _, _)
set_bits_from(b, fs, i) ==
    IF i > Len(fs) THEN b ELSE set_bits_from(set_bit(b, fs[i]), fs, i + 1)

\* clear_bit for the facts fs[i..]
RECURSIVE clear_bits_from(_, _, _)
clear_bits_from(b, fs, i) ==
    IF i > Len(fs) THEN b ELSE clear_bits_from(clear_bit(b, fs[i]), fs, i + 1)

make_init_state(st) == set_bits_from([w \in 1..nwords(st.num_facts) |-> {}], st.init_true, 1)

strips_is_applicable(s, a) ==
    /\ \A i \in DOMAIN a.pre_pos : test_bit(s, a.pre_pos[i])
    /\ \A i \in DOMAIN a.pre_neg : ~test_bit(s, a.pre_neg[i])

\* apply: out = s, then the deletes, then the adds
strips_apply_out(s, a) == set_bits_from(clear_bits_from(s, a.del, 1), a.add, 1)

strips_is_goal(st, s) ==
    /\ \A i \in DOMAIN st.goal_pos : test_bit(s, st.goal_pos[i])
    /\ \A i \in DOMAIN st.goal_neg : ~test_bit(s, st.goal_neg[i])

\* extract_plan of search.cpp
RECURSIVE strips_extract_plan(_, _)
strips_extract_plan(nodes, goal_id) ==
    IF goal_id >= 0 /\ At0(nodes, goal_id).parent >= 0
    THEN Append(strips_extract_plan(nodes, At0(nodes, goal_id).parent), At0(nodes, goal_id).act_id)
    ELSE <<>>

\* eval_plan_cost of search.cpp, from the i-th action of the plan on
RECURSIVE strips_eval_plan_cost(_, _, _)
strips_eval_plan_cost(st, plan, i) ==
    IF i > Len(plan) THEN 0
    ELSE At0(st.actions, plan[i]).cost + strips_eval_plan_cost(st, plan, i + 1)

SearchStats0 == [generated |-> 0, expanded |-> 0, duplicates |-> 0]

StripsResult0 == [solved |-> FALSE, plan |-> <<>>, plan_cost |-> 0, nodes |-> <<>>, stats |-> SearchStats0]

strips_key(g, hv) == KeyInt(pack_fh_asc(g + hv, hv))

\* one iteration of the loop over st.actions: action a on node u
strips_successor(st, hf, prm, res, mt, q, u, a) ==
    LET act == At0(st.actions, a)
        su  == At0(res.nodes, u).s
    IN  IF ~strips_is_applicable(su, act) THEN Outcome(res, mt, q)
        ELSE
        LET succ        == strips_apply_out(su, act)
            res1        == Bump(res, "generated")
            tentative_g == At0(mt, u).g + rounding(act.cost)
            v           == index_of(res1.nodes, succ)
            hv          == rounding(hf[succ])
            new_key     == strips_key(tentative_g, hv)
        IN  IF v = -1
            THEN Outcome([res1 EXCEPT !.nodes = Append(@, Node(succ, u, a))],
                         Append(mt, MetaI(tentative_g, hv, FALSE)),
                         BQ_insert(q, Len(res1.nodes), new_key))
            ELSE IF tentative_g < At0(mt, v).g
            THEN LET res2 == [res1 EXCEPT !.nodes[v + 1].parent = u, !.nodes[v + 1].act_id = a]
                     mt1  == [mt EXCEPT ![v + 1].g = tentative_g, ![v + 1].h = hv]
                 IN  IF At0(mt, v).closed
                     THEN IF ~prm.reopen_closed
                          THEN Outcome(Bump(res2, "duplicates"), mt1, q)
                          ELSE Outcome(res2, [mt1 EXCEPT ![v + 1].closed = FALSE],
                                       BQ_insert(q, v, new_key))
                     ELSE IF BQ_contains(q, v)
                          THEN IF new_key < BQ_key_of(q, v)
                               THEN Outcome(res2, mt1, BQ_decrease_key(q, v, new_key))
                               ELSE IF new_key > BQ_key_of(q, v)
                               THEN Outcome(res2, mt1, BQ_increase_key(q, v, new_key))
                               ELSE Outcome(res2, mt1, q)
                          ELSE Outcome(res2, mt1, BQ_insert(q, v, new_key))
            ELSE Outcome(Bump(res1, "duplicates"), mt, q)

\* astar of search.cpp, up to the while loop
strips_astar_init ==
    /\ pc = "start" /\ engine = "strips_astar"
    /\ LET s0   == make_init_state(T)
           res0 == [StripsResult0 EXCEPT !.nodes = <<Node(s0, -1, -1)>>]
           h0   == rounding(hfn[s0])
       IN  IF strips_is_goal(T, s0)
           THEN /\ R' = [res0 EXCEPT !.solved = TRUE]
                /\ pc' = "done"
                /\ UNCHANGED <<meta, open>>
           ELSE /\ R' = res0
                /\ meta' = <<MetaI(0, h0, FALSE)>>
                /\ open' = BQ_insert(BucketPQ0, 0, KeyInt(pack_fh_asc(h0, h0)))
                /\ pc' = "loop"
    /\ UNCHANGED <<T, hfn, params, engine, open_pref, open_norm, cur_u, cur_a, notSeq>>

\* one round of the while loop up to the loop over the actions
strips_astar_pop ==
    /\ pc = "loop" /\ engine = "strips_astar" /\ ~BQ_empty(open)
    /\ LET em == BQ_extract_min(open)
           u  == em.v
           fu == em.key \div TwoPowH
           hu == em.key % TwoPowH
       IN  /\ open' = em.q
           /\ cur_u' = u
           /\ cur_a' = 0
           /\ IF fu # At0(meta, u).g + At0(meta, u).h \/ hu # At0(meta, u).h
              THEN pc' = "loop" /\ UNCHANGED <<R, meta>>
              ELSE IF strips_is_goal(T, At0(R.nodes, u).s)
              THEN /\ R' = [R EXCEPT !.solved = TRUE,
                                     !.plan = strips_extract_plan(R.nodes, u),
                                     !.plan_cost = strips_eval_plan_cost(T, strips_extract_plan(R.nodes, u), 1)]
                   /\ pc' = "done"
                   /\ UNCHANGED meta
              ELSE /\ meta' = [meta EXCEPT ![u + 1].closed = TRUE]
                   /\ R' = Bump(R, "expanded")
                   /\ pc' = IF R.stats.expanded + 1 > params.max_expansions THEN "done"
                            ELSE IF Len(T.actions) = 0 THEN "loop"
                            ELSE "expand"
    /\ UNCHANGED <<T, hfn, params, engine, open_pref, open_norm, notSeq>>

\* one iteration of the loop over st.actions
strips_astar_expand ==
    /\ pc = "expand" /\ engine = "strips_astar"
    /\ LET out == strips_successor(T, hfn, params, R, meta, open, cur_u, cur_a)
       IN  R' = out.R /\ meta' = out.meta /\ open' = out.open
    /\ IF cur_a + 1 < Len(T.actions)
       THEN pc' = "expand" /\ cur_a' = cur_a + 1
       ELSE pc' = "loop" /\ cur_a' = 0
    /\ UNCHANGED <<T, hfn, params, engine, open_pref, open_norm, cur_u, notSeq>>

\* the while loop ends on an empty open list: return R
strips_astar_return ==
    /\ pc = "loop" /\ engine = "strips_astar" /\ BQ_empty(open)
    /\ pc' = "done"
    /\ UNCHANGED <<T, hfn, params, engine, R, meta, open, open_pref, open_norm, cur_u, cur_a, notSeq>>

(***************************************************************************)
(* The STRIPS tasks the engine is run on: three facts, and as actions any  *)
(* at most MaxStripsActions actions of StripsPool, in the order of the     *)
(* pool.                                                                   *)
(***************************************************************************)
NumFacts == 3

MaxStripsActions == 4

StripsPool ==
    << StripsAction(<<>>, <<0, 1>>, <<1>>, <<>>, 3),        \* nothing -> fact 1, the dear way
       StripsAction(<<>>, <<0, 1>>, <<0>>, <<>>, 1),        \* nothing -> fact 0
       StripsAction(<<0>>, <<>>, <<1>>, <<0>>, 1),          \* fact 0 -> fact 1
       StripsAction(<<1>>, <<2>>, <<2>>, <<>>, 1),          \* fact 1 adds fact 2
       StripsAction(<<1>>, <<>>, <<0>>, <<0, 1>>, 0),       \* fact 1 -> fact 0 for free
       StripsAction(<<>>, <<2>>, <<2, 0>>, <<1>>, 5) >>     \* facts 2 and 0 at once

StripsSearchStates == {<<S>> : S \in SUBSET (0..(NumFacts - 1))}

StripsTasks ==
    {[num_facts |-> NumFacts, init_true |-> i, goal_pos |-> gp, goal_neg |-> gn, actions |-> a] :
        i \in {<<>>, <<2>>}, gp \in {<<2>>, <<1, 2>>}, gn \in {<<>>, <<0>>},
        a \in SubSeqsUpTo(StripsPool, MaxStripsActions)}

\* blind, and the tables that are 2 where fact 0 or fact 1 holds
StripsHeuristics ==
    { [s \in StripsSearchStates |-> 0],
      [s \in StripsSearchStates |-> IF test_bit(s, 0) THEN 2 ELSE 0],
      [s \in StripsSearchStates |-> IF test_bit(s, 1) THEN 2 ELSE 0] }

\* astar of search.cpp is called on a task
StripsSearchInit ==
    /\ T \in StripsTasks
    /\ hfn \in StripsHeuristics
    /\ params \in ParamSets
    /\ engine = "strips_astar"
    /\ R = StripsResult0
    /\ meta = <<>>
    /\ open = BucketPQ0
    /\ open_pref = TwoLevelBucketPQ0
    /\ open_norm = TwoLevelBucketPQ0
    /\ pc = "start"
    /\ cur_u = 0
    /\ cur_a = 0


(***************************************************************************)
(* regress_state (src/sas/bi_search.cpp) called on its own: one operator   *)
(* and one partial state per call.                                         *)
(***************************************************************************)
\* the partial states over the two variables: -1 is unknown
RegStates == {<<x, y>> : x \in -1..2, y \in -1..1}

\* operators of the pool and operators with prevail and condition literals
\* on the variables they write
RegressOps ==
    { OpPool[i] : i \in DOMAIN OpPool } \cup
    { Operator(<<<<1, 1>>>>, <<PrePost(<<>>, 0, -1, 2)>>, 1),
      Operator(<<>>, <<PrePost(<<>>, 0, 0, 2), PrePost(<<>>, 1, -1, 1)>>, 2),
      Operator(<<>>, <<PrePost(<<<<1, 0>>>>, 0, 1, 2)>>, 1),
      Operator(<<<<0, 2>>>>, <<PrePost(<<>>, 0, -1, 2)>>, 1),
      Operator(<<>>, <<PrePost(<<<<0, 1>>>>, 0, -1, 2), PrePost(<<>>, 1, 0, 1)>>, 1),
      Operator(<<>>, <<PrePost(<<<<1, 1>>>>, 0, -1, 2), PrePost(<<>>, 1, 0, 1)>>, 1),
      Operator(<<<<0, 0>>>>, <<PrePost(<<<<0, 0>>>>, 1, 1, 0)>>, 1) }

RegressTask(op) ==
    [vars |-> VarDomains, init |-> <<0, 0>>, goal |-> <<>>, ops |-> <<op>>, mutexes |-> <<>>]

RegressInit == fcall = NoFCall /\ fhist = {} /\ BudgetIdle /\ LockIdle

regress_call ==
    /\ \E op \in RegressOps, r \in RegStates :
          fcall' = [op |-> "regress_state", args |-> [o |-> op, r |-> r],
                    ret |-> regress_state(RegressTask(op), op, r)]
    /\ UNCHANGED <<fhist, unitFrame>>


(***************************************************************************)
(* The CPU budget (include/sas/sas_search.hpp, src/sas/sas_search.cpp)     *)
(* driven on its own: budget holds the four globals and cpu_seconds, the   *)
(* CPU time of the process so far, in whole seconds.  fcall is the call    *)
(* made last; fhist holds the pair <<limit, CPU time at the call>> of the  *)
(* set_search_cpu_budget call made last, and is empty before the first.    *)
(***************************************************************************)
MaxCpuSeconds == 4

CpuLimits == {-1, 0, 1, 2}

\* the definitions of sas_search.cpp:190-193
Budget0 ==
    [g_search_timed_out |-> FALSE, g_cpu_budget_enabled |-> TRUE,
     g_cpu_limit_sec |-> -1, g_cpu_start_sec |-> 0, cpu_seconds |-> 0]

\* the globals after the call, and what it returns
time_exceeded_cpu(b) ==
    IF ~b.g_cpu_budget_enabled THEN [b |-> b, ret |-> FALSE]
    ELSE IF b.cpu_seconds - b.g_cpu_start_sec >= b.g_cpu_limit_sec
    THEN [b |-> [b EXCEPT !.g_search_timed_out = TRUE], ret |-> TRUE]
    ELSE [b |-> b, ret |-> FALSE]

set_search_cpu_budget(b, cpu_limit_sec) ==
    IF cpu_limit_sec > 0
    THEN [b EXCEPT !.g_cpu_budget_enabled = TRUE, !.g_cpu_limit_sec = cpu_limit_sec,
                   !.g_cpu_start_sec = b.cpu_seconds, !.g_search_timed_out = FALSE]
    ELSE [b EXCEPT !.g_cpu_budget_enabled = FALSE, !.g_cpu_limit_sec = -1,
                   !.g_cpu_start_sec = 0, !.g_search_timed_out = FALSE]

cpuFrame == <<pkVars, pqVars, seqVars, biOnly, parOnly, lockVars>>

CpuInit == budget = Budget0 /\ fcall = NoFCall /\ fhist = {} /\ LockIdle

\* the process consumes CPU time
cpu_tick ==
    /\ budget.cpu_seconds < MaxCpuSeconds
    /\ budget' = [budget EXCEPT !.cpu_seconds = @ + 1]
    /\ UNCHANGED <<fcall, fhist, cpuFrame>>

\* a call of set_search_cpu_budget
cpu_set_budget ==
    /\ \E l \in CpuLimits :
          /\ budget' = set_search_cpu_budget(budget, l)
          /\ fcall' = [op |-> "set_search_cpu_budget", args |-> <<l>>, ret |-> <<>>]
          /\ fhist' = {<<l, budget.cpu_seconds>>}
    /\ UNCHANGED cpuFrame

\* a call of time_exceeded_cpu, as made at the top of the loop of an engine
cpu_check ==
    /\ budget' = time_exceeded_cpu(budget).b
    /\ fcall' = [op |-> "time_exceeded_cpu", args |-> <<>>, ret |-> time_exceeded_cpu(budget).ret]
    /\ UNCHANGED <<fhist, cpuFrame>>

(***************************************************************************)
(* The specifications.                                                     *)
(***************************************************************************)
InitPack == PkInit /\ PQIdle /\ SeqIdle /\ BiIdle /\ ParIdle /\ UnitIdle

NextPack == Pack

SpecPack == InitPack /\ [][NextPack]_vars

InitPQ == PQInit /\ PkIdleInit /\ SeqIdle /\ BiIdle /\ ParIdle /\ UnitIdle

SpecPQ == InitPQ /\ [][PQNext]_vars

InitSeq == SeqInit /\ PkIdleInit /\ PQIdle /\ BiIdle /\ ParIdle /\ UnitIdle

NextSeq ==
    \/ astar_init \/ astar_pop \/ astar_expand \/ astar_return
    \/ gbfs_init \/ gbfs_pop \/ gbfs_expand \/ gbfs_return
    \/ cpu_timeout

SpecSeq == InitSeq /\ [][NextSeq]_vars

SpecSeqLive == InitSeq /\ [][NextSeq]_vars /\ SeqFair

InitBi == BiInit /\ PkIdleInit /\ PQIdle /\ ParIdle /\ UnitIdle

NextBi ==
    \/ bidir_init \/ bi_timeout \/ bi_loop_exit
    \/ bi_fwd_pop \/ bi_fwd_expand \/ bi_bwd_pop \/ bi_bwd_expand
    \/ bi_idle_turn \/ bi_crash \/ bi_reconstruct

SpecBi == InitBi /\ [][NextBi]_vars

InitPar == ParInit /\ PkIdleInit /\ PQIdle /\ UnitIdle

NextPar ==
    \/ astar_soc_init
    \/ \E tid \in Workers : w_top(tid)
    \/ \E tid \in Workers : w_pop(tid)
    \/ \E tid \in Workers : w_become_idle(tid)
    \/ \E tid \in Workers : w_check_empty(tid)
    \/ \E tid \in Workers : w_check_active(tid)
    \/ \E tid \in Workers : w_backoff(tid)
    \/ \E tid \in Workers : w_set_done(tid)
    \/ \E tid \in Workers : w_become_active(tid)
    \/ \E tid \in Workers : w_get(tid)
    \/ \E tid \in Workers : w_post_goal(tid)
    \/ \E tid \in Workers : w_cb_alloc(tid)
    \/ \E tid \in Workers : w_cb_get(tid)
    \/ \E tid \in Workers : w_cb_prune(tid)
    \/ \E tid \in Workers : w_cb_put(tid)
    \/ \E tid \in Workers : w_cb_push(tid)
    \/ \E tid \in Workers : w_exit(tid)
    \/ astar_soc_return

SpecPar == InitPar /\ [][NextPar]_vars

InitClosed ==
    /\ ClosedInit /\ PkIdleInit /\ PQIdle /\ SeqIdle /\ BiIdle
    /\ ids = 0 /\ store = StateStore0 /\ shared_open = SharedOpen("MultiQueue", 0, 0)
    /\ done = FALSE /\ goal_node = UINT64_MAX /\ active_workrs = 0 /\ wk = <<>>

NextClosed == closed_prune_or_update

SpecClosed == InitClosed /\ [][NextClosed]_vars

InitUndo == UndoInit /\ PkIdleInit /\ PQIdle /\ SeqIdle /\ BiIdle /\ ParIdle

NextUndo == visit_apply \/ visit_exit

SpecUndo == InitUndo /\ [][NextUndo]_vars

\* the sequential engines and the bidirectional engine, for what is said of
\* all three
InitEngines == InitSeq \/ InitBi

NextEngines == NextSeq \/ NextBi

SpecEngines == InitEngines /\ [][NextEngines]_vars

InitMain == MainInit /\ PkIdleInit /\ PQIdle /\ SeqIdle /\ BiIdle /\ ParIdle

NextMain == main_validate_task \/ main_catch \/ main_call_engine \/ NextSeq

SpecMain == InitMain /\ [][NextMain]_vars

lockRest == PkIdleInit /\ PQIdle /\ SeqIdle /\ BiIdle /\ ParIdle

InitSpin == SpinInit /\ lockRest

NextSpin ==
    \E t \in LockThreads :
        \/ spin_lock(t) \/ spin_tas_outer(t) \/ spin_tas_inner(t)
        \/ spin_clear(t) \/ spin_unlock(t)

SpecSpin == InitSpin /\ [][NextSpin]_vars

SpecSpinLive == InitSpin /\ [][NextSpin]_vars /\ SpinFair

InitTicket == TicketInit /\ lockRest

NextTicket == \E t \in LockThreads : ticket_lock(t) \/ ticket_enter(t) \/ ticket_unlock(t)

SpecTicket == InitTicket /\ [][NextTicket]_vars

InitExpander == ExpanderInit /\ lockRest

NextExpander == expander_for_each_inplace

SpecExpander == InitExpander /\ [][NextExpander]_vars

InitStrips == StripsInit /\ lockRest

NextStrips == strips_apply \/ strips_undo

SpecStrips == InitStrips /\ [][NextStrips]_vars

InitRegress == RegressInit /\ lockRest

NextRegress == regress_call

SpecRegress == InitRegress /\ [][NextRegress]_vars

SpecParLive == InitPar /\ [][NextPar]_vars /\ ParFair

InitSearch ==
    \/ InitSeq
    \/ StripsSearchInit /\ PkIdleInit /\ PQIdle /\ BiIdle /\ ParIdle /\ UnitIdle

NextSearch ==
    \/ NextSeq
    \/ strips_astar_init \/ strips_astar_pop \/ strips_astar_expand \/ strips_astar_return

SpecSearch == InitSearch /\ [][NextSearch]_vars

InitCpu == CpuInit /\ lockRest

NextCpu == cpu_tick \/ cpu_set_budget \/ cpu_check

SpecCpu == InitCpu /\ [][NextCpu]_vars

(***************************************************************************)
(* Properties of the packed keys and of the bucket queues.                 *)
(***************************************************************************)

\* C9: for all f, h >= 0, also above 0xFFFF, unpack_f(pack_fh_asc(f, h)) is
\* min(f, 0xFFFF) and unpack_h(pack_fh_asc(f, h)) is min(h, 0xFFFF): inputs
\* outside 16 bits saturate instead of wrapping.
C9_PackSaturates ==
    pk.packed =>
        /\ unpack_f(pk.key) = IF pk.f < H_MASK THEN pk.f ELSE H_MASK
        /\ unpack_h(pk.key) = IF pk.h < H_MASK THEN pk.h ELSE H_MASK

\* C5: extract_min on a non-empty queue returns (v, key) where v was present,
\* key is the key v had, and key is minimal in the lexicographic (f, h) order
\* among the present elements; exactly v is removed and the other elements
\* keep their keys.
C5_ExtractMinReturnsMinimum ==
    [][qcall'.op = "extract_min" =>
          LET v   == qcall'.ret[1]
              key == qcall'.ret[2]
          IN  /\ v \in PQ_present
              /\ key = PQ_key_of(v)
              /\ \A w \in PQ_present : KeyLeq(key, PQ_key_of(w))
              /\ PresentIn(q2', q1') = PQ_present \ {v}
              /\ \A w \in PQ_present \ {v} : KeyOfIn(q2', q1', w) = PQ_key_of(w)]_vars

\* an extract_min has just returned an element whose key was strictly below
\* the key of an element that is still present
C5_Witness ==
    /\ qcall.op = "extract_min"
    /\ \E w \in PQ_present : KeyLess(qcall.key, PQ_key_of(w))

\* C6: decrease_key(v, new_key) with new_key <= key_of(v) leaves v present
\* with key new_key and leaves the membership and the keys of the other
\* elements unchanged; if new_key is below every other present key, the
\* extract_min that follows immediately returns (v, new_key).
C6_DecreaseKey ==
    [][/\ qcall'.op = "decrease_key" =>
            /\ PresentIn(q2', q1') = PQ_present
            /\ qcall'.v \in PQ_present
            /\ KeyOfIn(q2', q1', qcall'.v) = qcall'.key
            /\ \A w \in PQ_present \ {qcall'.v} : KeyOfIn(q2', q1', w) = PQ_key_of(w)
       /\ (/\ qcall.op = "decrease_key"
           /\ qcall'.op = "extract_min"
           /\ \A w \in PQ_present \ {qcall.v} : KeyLess(qcall.key, PQ_key_of(w)))
          => qcall'.ret = <<qcall.v, qcall.key>>]_vars

\* a decrease_key has just put its element strictly below another present one
\* that shares the bucket layer it came to
C6_Witness ==
    /\ qcall.op = "decrease_key"
    /\ PQ_key_of(qcall.v) = qcall.key
    /\ \E w \in PQ_present \ {qcall.v} : KeyLess(qcall.key, PQ_key_of(w))

\* C7: in every reachable state of TwoLevelBucketPQ, for every present v the
\* bucket at (pos[v].f, pos[v].h) holds v exactly at index pos[v].idx, and no
\* id that is not present occurs in a bucket.
TL_bucket_ids(q) ==
    UNION {UNION {Range(q.layers_.data_[f].buckets.data_[h])
                    : h \in DOMAIN q.layers_.data_[f].buckets.data_}
             : f \in DOMAIN q.layers_.data_}

C7_PositionsConsistent ==
    /\ \A v \in Values :
          TL_contains(q2, v) =>
              LET p == TL_pos(q2, v)
                  b == TL_bucket(q2, p.f, p.h)
              IN  p.idx < Len(b) /\ At0(b, p.idx) = v
    /\ \A v \in TL_bucket_ids(q2) : TL_contains(q2, v)

\* a remove or a key change has just relocated the last element of a bucket
\* into the slot of the element it took out
C7_Witness ==
    /\ TwoLevel
    /\ qcall.op \in {"remove", "decrease_key", "increase_key"}
    /\ \E w \in Values \ {qcall.v} :
          /\ TL_contains(q2, w)
          /\ TL_pos(q2, w).idx = 0
          /\ \E k \in PQKeys : k # TL_key_of(q2, qcall.v) /\ k = TL_key_of(q2, w)
          /\ \/ qcall.op # "remove"
             \/ /\ TL_pos(q2, qcall.v).f = TL_pos(q2, w).f
                /\ TL_pos(q2, qcall.v).h = TL_pos(q2, w).h
                /\ TL_pos(q2, qcall.v).idx = 0

\* C8: for the f-bitset and every per-layer h-bitset, min_word_ is the
\* sentinel exactly when no bit is set, and otherwise is the index of a
\* non-zero word that is <= the word of every set bit, so that find_first
\* does not trip its assertion and returns the lowest set bit.
BS_min_word_ok(b) ==
    /\ (b.min_word_ = NO_WORD) <=> (BS_bits(b) = {})
    /\ b.min_word_ # NO_WORD =>
          /\ b.min_word_ < b.w_.size_
          /\ BS_word(b, b.min_word_) # {}
          /\ \A i \in BS_bits(b) : b.min_word_ <= i \div WORD_BITS
    /\ ~BS_find_first_asserts(b)
    /\ BS_bits(b) # {} => BS_find_first(b) = Min(BS_bits(b))

C8_MinWordHint ==
    /\ BS_min_word_ok(q2.fbits_)
    /\ \A f \in DOMAIN q2.layers_.data_ : BS_min_word_ok(q2.layers_.data_[f].hbits)

\* a clear has moved the hint of the f-bitset past its first word, and the
\* hint of some h-bitset is past its first word as well
C8_Witness ==
    /\ qcall.op \in {"extract_min", "remove", "decrease_key", "increase_key"}
    /\ q2.fbits_.min_word_ = 1
    /\ q2.fbits_.w_.size_ = 2
    /\ \E f \in DOMAIN q2.layers_.data_ : q2.layers_.data_[f].hbits.min_word_ = 1

(***************************************************************************)
(* The state space of a task, for the claims on the sequential engines.    *)
(***************************************************************************)
\* above the cost of every operator sequence that repeats no state
COST_INF == Cardinality(AllStates) * TwoPowH

Successors(task, s) ==
    {apply_inplace(task, task.ops[i], s) : i \in {j \in DOMAIN task.ops : is_applicable(task, s, task.ops[j])}}

RECURSIVE ReachFrom(_, _)
ReachFrom(task, S) ==
    LET S1 == S \cup UNION {Successors(task, s) : s \in S}
    IN  IF S1 = S THEN S ELSE ReachFrom(task, S1)

\* the states some applicable operator sequence leads to from init
Reach(task) == ReachFrom(task, {task.init})

\* the entry of state s in a table D of pairs <<state, cost>>
CostIn(D, s) == (CHOOSE e \in D : e[1] = s)[2]

\* n rounds of relaxation of the table D of the costs to a goal state
RECURSIVE Relax(_, _, _)
Relax(task, D, n) ==
    IF n = 0 THEN D
    ELSE Relax(task,
               {<<s, Min({CostIn(D, s)} \cup
                         {task.ops[i].cost + CostIn(D, apply_inplace(task, task.ops[i], s)) :
                             i \in {j \in DOMAIN task.ops :
                                       /\ is_applicable(task, s, task.ops[j])
                                       /\ CostIn(D, apply_inplace(task, task.ops[j], s)) # COST_INF}})>> :
                   s \in AllStates},
               n - 1)

\* the minimum cost of an applicable operator sequence from each state to a
\* goal state (COST_INF: there is none)
GoalDist(task) ==
    Relax(task, {<<s, IF is_goal(task, s) THEN 0 ELSE COST_INF>> : s \in AllStates},
          Cardinality(AllStates))

Admissible(task, hf) ==
    LET d == GoalDist(task)
    IN  \A s \in Reach(task) : hf[s] <= CostIn(d, s)

Consistent(task, hf) ==
    LET reach == Reach(task)
    IN  /\ \A s \in reach : is_goal(task, s) => hf[s] = 0
        /\ \A s \in reach : \A i \in DOMAIN task.ops :
              is_applicable(task, s, task.ops[i])
                  => hf[s] <= task.ops[i].cost + hf[apply_inplace(task, task.ops[i], s)]

\* the mutex groups of the task hold in every reachable state
MutexSound(task) == \A s \in Reach(task) : ~violates_mutex(task, s)

NoGoalReachable(task) == \A s \in Reach(task) : ~is_goal(task, s)

OpenEmpty == IF engine = "astar" THEN TL_empty(open) ELSE gbfs_open_empty

ClosedIds == {v \in 0..(Len(R.nodes) - 1) : v < Len(meta) /\ At0(meta, v).closed}

\* C1: when A* (integer mode, reopen_closed) with an admissible, consistent
\* heuristic returns solved, the cost of the returned plan is the minimum
\* cost of an applicable operator sequence from init to a goal state.
C1_AstarOptimal ==
    (/\ pc = "done" /\ engine = "astar" /\ R.solved
     /\ params.reopen_closed
     /\ Consistent(T, hfn) /\ Admissible(T, hfn) /\ MutexSound(T))
        => R.plan_cost = CostIn(GoalDist(T), T.init)

\* A* returned the two-step plan of cost 2 on a task that also has the
\* one-step way of cost 3 to the goal
C1_Witness ==
    /\ pc = "done" /\ engine = "astar" /\ R.solved
    /\ params.reopen_closed
    /\ Admissible(T, hfn) /\ Consistent(T, hfn) /\ MutexSound(T)
    /\ Len(R.plan) = 2 /\ R.plan_cost = 2
    /\ OpPool[2] \in Range(T.ops)
    /\ R.stats.evaluated > Len(R.nodes)

\* C2 as stated: on a task with no reachable goal state an engine that has
\* returned has an empty open list, solved = false and an empty plan.
C2_ReturnsExhausted ==
    (pc = "done" /\ NoGoalReachable(T))
        => (OpenEmpty /\ ~R.solved /\ R.plan = <<>>)

\* C2 amended: on a task with no reachable goal state an engine that runs on
\* ends: it returns solved = false with an empty plan, with an empty open
\* list unless the expansion cap stopped it, or the CPU budget ends the
\* process first.
C2_Terminates ==
    (pc = "start" /\ NoGoalReachable(T))
        ~> \/ pc = "exit101"
           \/ /\ pc = "done" /\ ~R.solved /\ R.plan = <<>>
              /\ OpenEmpty \/ R.stats.expanded > params.max_expansions

\* A* exhausted the open list of a task with no reachable goal after it
\* expanded some node twice (a closed node was put back on open)
C2_Witness ==
    /\ pc = "done" /\ NoGoalReachable(T)
    /\ OpenEmpty /\ ~R.solved /\ R.plan = <<>>
    /\ R.stats.expanded > Len(R.nodes)
    /\ R.stats.expanded <= params.max_expansions

\* C10: an iteration of the successor loop of A* that generates the state of
\* an existing node v with g >= meta[v].g leaves open as it is; one that
\* generates the state of a closed node v with g < meta[v].g puts v on open
\* and clears its closed flag when reopen_closed is set, and leaves v closed
\* and open as it is when reopen_closed is not set.
C10_PruneOrReopen ==
    [][ (pc = "expand" /\ engine = "astar") =>
          LET op   == At0(T.ops, cur_a)
              su   == At0(R.nodes, cur_u).s
              work == apply_inplace(T, op, su)
              v    == index_of(R.nodes, work)
              g    == At0(meta, cur_u).g + op.cost
          IN  (/\ is_applicable(T, su, op)
               /\ ~(should_check_mutex_runtime(T) /\ violates_mutex(T, work))
               /\ v # -1)
                 => /\ g >= At0(meta, v).g => open' = open
                    /\ (g < At0(meta, v).g /\ At0(meta, v).closed) =>
                          IF params.reopen_closed
                          THEN /\ ~TL_contains(open, v) /\ TL_contains(open', v)
                               /\ ~At0(meta', v).closed
                               /\ TL_key_of(open', v) = pack_fh_asc(g + hfn[work], hfn[work])
                          ELSE /\ At0(meta', v).closed
                               /\ open' = open ]_vars

\* a node that was expanded is on open again: it was closed and reopened
C10_Witness ==
    /\ engine = "astar" /\ params.reopen_closed
    /\ R.stats.expanded > Cardinality(ClosedIds)
    /\ \E v \in 0..(Len(R.nodes) - 1) : TL_contains(open, v) /\ At0(R.nodes, v).parent # -1

(***************************************************************************)
(* Properties of the bidirectional engine.                                 *)
(***************************************************************************)
BiReturned == engine = "bidir" /\ pc \in {"ret_init_goal", "ret_fwd_goal", "ret_bwd_init", "ret_end"}

\* C3: bidir_astar returns solved = true only if init satisfies the goal, the
\* forward search popped a goal state, the backward search popped a partial
\* state that init satisfies, or a meeting was recorded; a return after the
\* while loop (both open lists exhausted, or the expansion cap exceeded) with
\* no meeting recorded has solved = false.
C3_SolvedOnlyOnHit ==
    (BiReturned /\ R.solved) =>
        \/ pc \in {"ret_init_goal", "ret_fwd_goal", "ret_bwd_init"}
        \/ meeting.have_meeting

(***************************************************************************)
(* Properties of the parallel engine.                                      *)
(***************************************************************************)
\* worker tid holds a popped node whose successors it has not finished pushing
HoldsPoppedNode(tid) ==
    wk[tid].pc \in {"active", "get", "cb_alloc", "cb_get", "cb_prune", "cb_put", "cb_push"}

\* C4: under every interleaving, a worker executes the done.store of the
\* exhaustion path (parallel_search.cpp:141) only in a state where the shared
\* open list is empty and no worker holds a popped node whose successors it
\* has not yet finished pushing.
C4_DoneOnlyWhenExhausted ==
    [][\A tid \in Workers :
          (wk[tid].pc = "done_exhausted" /\ wk'[tid].pc = "exit") =>
              /\ SO_empty(shared_open)
              /\ \A other \in Workers : ~HoldsPoppedNode(other)]_vars


\* the ids the open list of A* holds
OpenIds == {v \in 0..(Len(R.nodes) - 1) : TL_contains(open, v)}

\* the key of every id on the open list of A* is the packed (g + h, h) of meta
OpenKeysCurrent ==
    (engine = "astar" /\ pc \in {"loop", "expand"}) =>
        \A v \in OpenIds :
            /\ v < Len(meta)
            /\ TL_key_of(open, v) = pack_fh_asc(At0(meta, v).g + At0(meta, v).h, At0(meta, v).h)

\* the round of the while loop that pops an entry whose unpacked f or h is
\* not the current one of the node goes back to the top of the loop: no goal
\* test, no closing, no expansion, no change of R
StalePopDropped ==
    (engine = "astar" /\ pc = "loop" /\ ~TL_empty(open) /\ open' # open) =>
        LET em == TL_extract_min(open)
            m  == At0(meta, em.v)
        IN  (unpack_f(em.key) # m.g + m.h \/ unpack_h(em.key) # m.h) =>
                /\ pc' = "loop"
                /\ R' = R
                /\ meta' = meta
                /\ open' = em.q
                /\ ~TL_contains(open', em.v)

\* C11: at every point of the main loop of integer A* every id on the open
\* list has the key pack_fh_asc(meta[v].g + meta[v].h, meta[v].h), and a
\* popped entry whose key does not unpack to the current (g + h, h) is
\* dropped without goal test or expansion.
C11_OpenKeys == []OpenKeysCurrent /\ [][StalePopDropped]_vars

\* a stale entry was dropped: the node popped last is neither closed nor on
\* the open list, and the loop goes on with other entries
C11_Witness ==
    /\ engine = "astar" /\ pc = "loop"
    /\ Len(meta) > cur_u /\ Len(R.nodes) > 1
    /\ ~At0(meta, cur_u).closed /\ ~TL_contains(open, cur_u)
    /\ R.stats.expanded > 0
    /\ OpenIds # {}


\* the g values passed for state s so far
PassedG(s) == {e[2] : e \in {x \in fhist : x[1] = s}}

\* what the call made last did to the table
PruneOrUpdateStep ==
    fcall'.op = "prune_or_update" =>
        LET s       == fcall'.args[1]
            g       == fcall'.args[2]
            node_id == fcall'.args[3]
        IN  IF s \in DOMAIN closed /\ closed[s].best_g <= g
            THEN fcall'.ret = TRUE /\ closed' = closed
            ELSE /\ fcall'.ret = FALSE
                 /\ DOMAIN closed' = DOMAIN closed \cup {s}
                 /\ closed'[s] = ClosedEntry(g, node_id)
                 /\ \A x \in DOMAIN closed \ {s} : closed'[x] = closed[x]

\* C12: prune_or_update(s, g, id) returns true and leaves the table as it
\* is when s has an entry with best_g <= g, and else sets the entry of s to
\* (g, id) and returns false; over any sequence of calls the best_g of a
\* state never increases and is the minimum g passed for it so far.
C12_PruneOrUpdate ==
    /\ [][PruneOrUpdateStep]_vars
    /\ [][\A s \in DOMAIN closed : s \in DOMAIN closed' /\ closed'[s].best_g <= closed[s].best_g]_vars
    /\ [](\A s \in ClosedKeys :
            IF PassedG(s) = {} THEN s \notin DOMAIN closed
            ELSE s \in DOMAIN closed /\ closed[s].best_g = Min(PassedG(s)))

\* a call with the g of the entry was pruned after the entry had been
\* lowered from a larger g by another node
C12_Witness ==
    /\ fcall.op = "prune_or_update" /\ fcall.ret = TRUE
    /\ closed[fcall.args[1]].best_g = fcall.args[2]
    /\ closed[fcall.args[1]].node_id # fcall.args[3]
    /\ \E g \in PassedG(fcall.args[1]) : g > fcall.args[2]


\* C13: for every state s, every operator applicable in s and the mark m
\* taken before, apply_inplace followed by undo_to(m) leaves s as it was
\* and the undo log as long as m (the log it was), and the state
\* apply_inplace leaves in between is the successor state of the engines.
C13_ApplyUndo ==
    /\ fcall.op = "apply_inplace" =>
          /\ fcall.ret.s = apply_inplace(UndoTask, fcall.args.op, fcall.args.su)
          /\ Len(fcall.ret.u) >= fcall.args.mark
    /\ fcall.op = "undo_to" =>
          /\ fcall.ret.s = fcall.args.su
          /\ Len(fcall.ret.u) = fcall.args.mark
          /\ fcall.ret.u = fcall.args.undo

\* the block applied an operator that writes x twice and y twice, ending
\* on another state, with a log that was not empty before, and was undone
C13_Witness ==
    /\ fcall.op = "undo_to"
    /\ Len(fcall.args.op.pre_posts) = 4
    /\ fcall.args.mark > 0
    /\ apply_inplace(UndoTask, fcall.args.op, fcall.args.su) # fcall.args.su
    /\ Len(apply_inplace_undo(fcall.args.op, fcall.args.su, fcall.args.undo).u) >= fcall.args.mark + 3


\* two literals of one mutex group of the task hold in s
TwoOfAGroupHold(task, s) ==
    \E gi \in DOMAIN task.mutexes :
        \E i, j \in DOMAIN task.mutexes[gi].lits :
            /\ i # j
            /\ At0(s, task.mutexes[gi].lits[i][1]) = task.mutexes[gi].lits[i][2]
            /\ At0(s, task.mutexes[gi].lits[j][1]) = task.mutexes[gi].lits[j][2]

\* the ids on an open list of the engine that runs (forward side)
ForwardOpenIds ==
    {v \in 0..(Len(R.nodes) - 1) :
        \/ engine = "astar" /\ TL_contains(open, v)
        \/ engine = "gbfs" /\ (TL_contains(open_pref, v) \/ TL_contains(open_norm, v))
        \/ engine = "bidir" /\ TL_contains(open_fwd, v)}

\* C14: with the mutex check enabled, A*, GBFS and the forward side of the
\* bidirectional A* hold no successor state (a node with a parent) in the
\* node arena, and so none under an id of an open list, in which two
\* literals of one mutex group hold.
C14_NoMutexViolatingSuccessor ==
    (engine \in {"astar", "gbfs", "bidir"} /\ should_check_mutex_runtime(T)) =>
        /\ \A v \in 1..(Len(R.nodes) - 1) : ~TwoOfAGroupHold(T, At0(R.nodes, v).s)
        /\ \A v \in ForwardOpenIds \ {0} : ~TwoOfAGroupHold(T, At0(R.nodes, v).s)

\* the engine has expanded a node one of whose applicable operators leads
\* to a state that violates a mutex group
ExpandedIntoMutex(e) ==
    /\ engine = e /\ should_check_mutex_runtime(T)
    /\ pc \in {"loop", "done", "ret_end", "break"}
    /\ \E v \in 0..(Len(R.nodes) - 1) :
          /\ IF e = "bidir" THEN v < Len(meta_fwd) /\ At0(meta_fwd, v).closed
             ELSE v < Len(meta) /\ At0(meta, v).closed
          /\ \E a \in DOMAIN T.ops :
                /\ is_applicable(T, At0(R.nodes, v).s, T.ops[a])
                /\ TwoOfAGroupHold(T, apply_inplace(T, T.ops[a], At0(R.nodes, v).s))
    /\ R.stats.generated > Len(R.nodes) - 1

C14_Witness == ExpandedIntoMutex("bidir") /\ su_ok


\* the initial state of the task satisfies every goal literal
InitSatisfiesGoal ==
    \A i \in DOMAIN T.goal : At0(T.init, T.goal[i][1]) = T.goal[i][2]

\* no open list of any of the three engines has been touched
OpenListsUntouched ==
    /\ open = TwoLevelBucketPQ0 /\ open_pref = TwoLevelBucketPQ0 /\ open_norm = TwoLevelBucketPQ0
    /\ open_fwd = TwoLevelBucketPQ0 /\ open_bwd = TwoLevelBucketPQ0

\* C15: when the initial state satisfies every goal literal, A*, GBFS and
\* the bidirectional A* return at once: solved with plan_cost 0, an empty
\* plan, stats.expanded = 0, no heuristic evaluation counted and every open
\* list as constructed.
C15_InitIsGoal ==
    (engine \in {"astar", "gbfs", "bidir"} /\ InitSatisfiesGoal /\ pc # "start") =>
        /\ pc \in {"done", "ret_init_goal"}
        /\ R.solved /\ R.plan_cost = 0 /\ R.plan = <<>>
        /\ R.stats.expanded = 0 /\ R.stats.evaluated = 0 /\ R.stats.generated = 0
        /\ OpenListsUntouched

\* the bidirectional engine returned on a task whose initial state is a goal
\* state and that has operators applicable in it
C15_Witness ==
    /\ engine = "bidir" /\ pc = "ret_init_goal" /\ InitSatisfiesGoal
    /\ R.solved
    /\ \E a \in DOMAIN T.ops : is_applicable(T, T.init, T.ops[a])


\* the state the operators plan[i..] lead to from s, or <<>> when one of
\* them is not applicable
RECURSIVE run_plan(_, _, _, _)
run_plan(task, plan, s, i) ==
    IF i > Len(plan) THEN s
    ELSE IF ~is_applicable(task, s, At0(task.ops, plan[i])) THEN <<>>
    ELSE run_plan(task, plan, apply_inplace(task, At0(task.ops, plan[i]), s), i + 1)

\* C16: when astar_soc returns after a goal node was posted, plan_ops is
\* applicable step by step from init and ends in a goal state, and cost is
\* the sum of the costs of its operators, the g of the posted goal node.
C16_PlanFromParents ==
    (engine = "astar_soc" /\ pc = "done" /\ goal_node # UINT64_MAX) =>
        LET final == run_plan(T, R.plan_ops, T.init, 1)
        IN  /\ R.solved
            /\ final # <<>> /\ is_goal(T, final)
            /\ R.cost = eval_plan_cost(T, R.plan_ops)
            /\ \E tid \in Workers :
                  /\ DOMAIN wk[tid].cur # {}
                  /\ wk[tid].cur.id = goal_node /\ wk[tid].cur.g = R.cost


\* what astar_soc returns with one worker and no time limit: the run is
\* sequential, so the result is a function of the task
OneWorkerResult(task) ==
    IF NoGoalReachable(task) THEN SearchResult0
    ELSE [solved |-> TRUE, cost |-> 0, plan_ops |-> <<>>]

\* every run with one worker and no time limit returns OneWorkerResult
OneWorkerDeterministic ==
    (engine = "astar_soc" /\ pc = "done" /\ NumThreads(params) = 1 /\ params.time_limit_ms <= 0)
        => R = OneWorkerResult(T)

\* C17: with an admissible, consistent heuristic and no time limit, every
\* run of astar_soc with several workers returns the solved flag and the
\* cost that the run with one worker returns on the same task.
C17_SameAsOneWorker ==
    (/\ engine = "astar_soc" /\ pc = "done" /\ params.time_limit_ms <= 0
     /\ Admissible(T, hfn) /\ Consistent(T, hfn))
        => /\ R.solved = OneWorkerResult(T).solved
           /\ R.cost = OneWorkerResult(T).cost


\* the sum over the workers of a counter of their ThreadStats
RECURSIVE SumStat(_, _)
SumStat(field, tid) ==
    IF tid \notin Workers THEN 0 ELSE wk[tid].S[field] + SumStat(field, tid + 1)

\* the nodes the shards of the shared open list hold
OpenNodeCount ==
    IF shared_open.kind_ = "MultiQueue"
    THEN Cardinality(UNION {shared_open.mq_[i] : i \in DOMAIN shared_open.mq_})
    ELSE Cardinality(UNION {shared_open.tlb_[i].store : i \in DOMAIN shared_open.tlb_})

\* C18: in every state of a parallel run between the calls of push and pop
\* the pushes of all threads minus the pops of all threads is the number of
\* nodes the shared open list holds, the sum of the shard sizes; and every
\* step that takes a node out of a shard counts one pop.
C18_PushesMinusPops ==
    /\ []((engine = "astar_soc" /\ pc # "start") =>
            /\ SumStat("pushes", 0) - SumStat("pops", 0) = OpenNodeCount
            /\ OpenNodeCount = SO_size(shared_open))
    /\ [][OpenNodeCount' < OpenNodeCount =>
            /\ OpenNodeCount' = OpenNodeCount - 1
            /\ SumStat("pops", 0)' = SumStat("pops", 0) + 1]_vars

\* both workers of a run on the two-level bucket list have popped, and nodes
\* are left on the list
C18_Witness ==
    /\ engine = "astar_soc" /\ Cardinality(Workers) = 2
    /\ shared_open.kind_ = "TwoLevelBucket"
    /\ \A tid \in Workers : wk[tid].S.pops > 0
    /\ SumStat("pushes", 0) >= 3
    /\ OpenNodeCount >= 1


\* the engine has handed a Result to its caller
EngineReturned ==
    pc \in {"done", "ret_init_goal", "ret_fwd_goal", "ret_bwd_init", "ret_end"}

\* C19: a sequential search (A*, GBFS, bidirectional A*) whose CPU budget is
\* crossed stops expanding and returns to its caller a result with
\* solved = false and the statistics of the work done; a step on which
\* time_exceeded_cpu() answers true is therefore a return, never the end of
\* the process.
C19_TimeoutReturnsResult ==
    [][(engine \in {"astar", "gbfs", "bidir"} /\ pc = "loop" /\ pc' = "exit101") =>
          /\ EngineReturned'
          /\ ~R'.solved
          /\ R'.stats = R.stats]_vars


\* every id and value of the task lies in its range: the variables of the
\* literals in [0, |vars|), the values in [0, domain), pre also -1
LitInRange(task, l) ==
    /\ Lit_var(l) \in 0..(Len(task.vars) - 1)
    /\ Lit_val(l) \in 0..(At0(task.vars, Lit_var(l)) - 1)

TaskInRange(task) ==
    /\ Len(task.init) = Len(task.vars)
    /\ \A v \in DOMAIN task.init : task.init[v] \in 0..(task.vars[v] - 1)
    /\ \A i \in DOMAIN task.goal : LitInRange(task, task.goal[i])
    /\ \A oi \in DOMAIN task.ops :
          /\ \A i \in DOMAIN task.ops[oi].prevail : LitInRange(task, task.ops[oi].prevail[i])
          /\ \A i \in DOMAIN task.ops[oi].pre_posts :
                LET pp == task.ops[oi].pre_posts[i]
                IN  /\ \A j \in DOMAIN pp.conds : LitInRange(task, pp.conds[j])
                    /\ LitInRange(task, <<pp.var, pp.post>>)
                    /\ pp.pre = -1 \/ LitInRange(task, <<pp.var, pp.pre>>)

\* C20: a task with an init value, a goal, prevail or pre_post condition
\* literal, a pre value other than -1 or a post value outside its range is
\* rejected before the search loop is entered: no
\* heuristic value is computed and no node is expanded for it.
C20_OutOfRangeTaskRejected ==
    (fcall.op \in {"validate_task", "return"} /\ ~TaskInRange(fcall.args[1])) =>
        /\ pc # "loop"
        /\ R.stats.evaluated = 0
        /\ R.stats.expanded = 0


\* worker tid performs open.push(nxt) on this step
PushStep(tid) ==
    /\ tid \in Workers
    /\ wk[tid].pc = "cb_push"
    /\ wk'[tid] # wk[tid]

\* C21: whenever the closed table holds best_g = g* for a state, no node
\* of that state with a g above g* is pushed into the shared open list: a
\* worker whose prune_or_update was accepted with g does not push its node
\* once another worker has lowered best_g of the state below g.
C21_NoPushAboveBestG ==
    [][\A tid \in 0..(MaxThreads - 1) :
          PushStep(tid) => wk[tid].nxt.g <= closed[wk[tid].cur_state].best_g]_vars


\* a thread inside lock() that has not returned from it
SpinWaiting(t) == th[t].pc \in {"tas_outer", "tas_inner", "clear"}

\* C22: SpinLock provides mutual exclusion: at most one thread is between
\* its return from lock() and its call of unlock(), and a thread waiting in
\* lock() never clears the flag while another thread holds the lock.
C22_SpinMutualExclusion ==
    /\ [](Cardinality(InCS) <= 1)
    /\ [][\A t \in LockThreads :
             (SpinWaiting(t) /\ th'[t] # th[t] /\ lk.flag /\ ~lk'.flag) => InCS = {}]_vars

\* C23: under fair scheduling, with every holder of the lock calling
\* unlock(), every thread that calls lock() returns from it, also a thread
\* whose first test_and_set failed.
C23_SpinProgress ==
    \A t \in LockThreads : SpinWaiting(t) ~> (th[t].pc = "cs")


\* t enters the critical section on this step
TicketEnters(t) == th[t].pc = "wait" /\ th'[t].pc = "cs"

\* C24: TicketLock provides mutual exclusion and FIFO hand-off: at most one
\* thread is inside, a thread that drew ticket k returns from lock() only
\* after the holders of all smaller tickets have called unlock(), and the
\* threads enter in the order of their tickets.
C24_TicketFifo ==
    /\ [](Cardinality(InCS) <= 1)
    /\ [](\A i \in DOMAIN lk.entered : lk.entered[i] = i - 1)
    /\ [][\A t \in LockThreads :
             TicketEnters(t) => \A k \in 0..(th[t].my - 1) : k \in lk.unlocked]_vars

\* the third ticket holder is inside after two hand-offs while another waits
C24_Witness ==
    /\ lk.kind = "ticket"
    /\ lk.entered = <<0, 1, 2>>
    /\ \E t \in LockThreads : th[t].pc = "cs" /\ th[t].my = 2
    /\ \E t \in LockThreads : th[t].pc = "wait" /\ th[t].my = 3


\* C25: parallel A* never stores in the closed table or the state store,
\* and never pushes into the open list (every pushed id is in the store), a
\* successor state in which two literals of one mutex group of the task hold.
C25_ParNoMutexViolatingSuccessor ==
    engine = "astar_soc" =>
        /\ \A s \in DOMAIN closed : s # T.init => ~TwoOfAGroupHold(T, s)
        /\ \A id \in DOMAIN store : id # 0 => ~TwoOfAGroupHold(T, store[id])


\* C26: for_each_inplace returns with s as it was at the call, and at each
\* callback s is the successor of that state under the operator, each
\* written variable holding its last-written post; also for operators whose
\* pre_posts write one variable more than once.
C26_ForEachInplaceRestores ==
    fcall.op = "for_each_inplace" =>
        /\ fcall.ret.s = fcall.args.s
        /\ \A i \in DOMAIN fcall.ret.calls :
              fcall.ret.calls[i][3] =
                  apply_from(At0(fcall.args.T.ops, fcall.ret.calls[i][1]).pre_posts, fcall.args.s, 1)


\* C27: on the packed-bit STRIPS state, undo_to(s, u, mark) after any
\* sequence of apply_inplace calls leaves s as it was when the mark was
\* taken and the log at length mark (undo_mark(u) = mark), so that a second
\* undo_to(s, u, mark) leaves s unchanged.
C27_StripsUndo ==
    fcall.op = "undo_to" =>
        /\ fcall.ret.bits = fcall.args.s
        /\ undo_mark(fcall.ret.flipped) = fcall.args.mark
        /\ strips_undo_to(fcall.ret.bits, fcall.ret.flipped, fcall.args.mark).bits = fcall.ret.bits


\* the heuristic value of node v is strictly below that of its parent
HImprovesIn(mt, nodes, v) == At0(mt, v).h < At0(mt, At0(nodes, v).parent).h

HImproves(v) == HImprovesIn(meta, R.nodes, v)

\* the nodes generated so far, the root apart
GeneratedIds == 1..(Len(R.nodes) - 1)

\* C28: in integer GBFS a newly generated state lies in the preferred queue
\* exactly when its heuristic value is strictly smaller than its parent's
\* and otherwise in the non-preferred queue, and a node leaves the
\* non-preferred queue only at a moment when the preferred queue is empty.
C28_GbfsPreferred ==
    /\ [](engine = "gbfs" =>
            \A v \in GeneratedIds :
                /\ TL_contains(open_pref, v) => HImproves(v)
                /\ TL_contains(open_norm, v) => ~HImproves(v))
    /\ [][(engine = "gbfs" /\ Len(R'.nodes) = Len(R.nodes) + 1 /\ Len(R.nodes) > 0) =>
             /\ TL_contains(open_pref', Len(R.nodes)) <=> HImprovesIn(meta', R'.nodes, Len(R.nodes))
             /\ TL_contains(open_norm', Len(R.nodes)) <=> ~HImprovesIn(meta', R'.nodes, Len(R.nodes))]_vars
    /\ [][(engine = "gbfs" /\ TL_size(open_norm') < TL_size(open_norm)) =>
             TL_empty(open_pref)]_vars

\* a generated node that did not improve on its parent has been extracted
\* and closed while a preferred node generated later waits
C28_Witness ==
    /\ engine = "gbfs"
    /\ \E v \in GeneratedIds : At0(meta, v).closed /\ ~HImproves(v)
    /\ \E w \in GeneratedIds : TL_contains(open_pref, w)


\* the step generates a state that is already held by a node
GbfsDuplicateStep ==
    engine = "gbfs" /\ R'.stats.duplicates = R.stats.duplicates + 1

\* C29: in sequential GBFS every distinct state is inserted into an open
\* queue at most once and expanded at most once: no two nodes hold the same
\* state, a node is in at most one queue, a node that was extracted is in
\* none and the expansions are as many as the extracted nodes; generating a
\* state already seen, also with a smaller g, only increments the duplicate
\* counter and changes neither g, parent and operator of its node nor a queue.
C29_GbfsNoReopen ==
    /\ [](engine = "gbfs" =>
            /\ \A i, j \in DOMAIN R.nodes : i # j => R.nodes[i].s # R.nodes[j].s
            /\ \A v \in 0..(Len(R.nodes) - 1) :
                  /\ ~(TL_contains(open_pref, v) /\ TL_contains(open_norm, v))
                  /\ v \in ClosedIds =>
                        ~TL_contains(open_pref, v) /\ ~TL_contains(open_norm, v)
            /\ (pc \notin {"start", "idle"} /\ ~R.solved) => R.stats.expanded = Cardinality(ClosedIds))
    /\ [][GbfsDuplicateStep =>
             /\ R'.nodes = R.nodes
             /\ meta' = meta
             /\ open_pref' = open_pref
             /\ open_norm' = open_norm
             /\ R' = [R EXCEPT !.stats.duplicates = @ + 1, !.stats.generated = @ + 1]]_vars

\* the node expanded has generated, as a duplicate, the state of a node
\* whose g is larger than the g of the new path
C29_Witness ==
    /\ engine = "gbfs" /\ pc \in {"expand", "loop"}
    /\ R.stats.duplicates > 0
    /\ \E a \in 0..(cur_a - 1) :
          LET op   == At0(T.ops, a)
              su   == At0(R.nodes, cur_u).s
              work == apply_inplace(T, op, su)
          IN  /\ is_applicable(T, su, op)
              /\ index_of(R.nodes, work) # -1
              /\ At0(R.nodes, index_of(R.nodes, work)).parent # cur_u
              /\ At0(meta, cur_u).g + op.cost < At0(meta, index_of(R.nodes, work)).g


\* the prevail and condition literals of operator o
RegLits(o) ==
    {o.prevail[i] : i \in DOMAIN o.prevail} \cup
    UNION {{o.pre_posts[i].conds[j] : j \in DOMAIN o.pre_posts[i].conds} : i \in DOMAIN o.pre_posts}

\* r with the prevail and condition literals of o injected
RegInjected(o, r) ==
    [v1 \in DOMAIN r |->
        IF \E l \in RegLits(o) : Lit_var(l) = v1 - 1
        THEN Lit_val(CHOOSE l \in RegLits(o) : Lit_var(l) = v1 - 1)
        ELSE r[v1]]

\* the four conditions under which the regression of r through o succeeds
RegSucceeds(o, r) ==
    LET pps == o.pre_posts
    IN  /\ \A i \in DOMAIN pps : At0(r, pps[i].var) \in {-1, pps[i].post}
        /\ \E i \in DOMAIN pps : At0(r, pps[i].var) = pps[i].post
        /\ \A l \in RegLits(o) : At0(r, Lit_var(l)) \in {-1, Lit_val(l)}
        /\ \A i \in DOMAIN pps :
              pps[i].pre >= 0 =>
                  \/ At0(RegInjected(o, r), pps[i].var) \in {-1, pps[i].pre}
                  \/ /\ At0(r, pps[i].var) = pps[i].post
                     /\ At0(RegInjected(o, r), pps[i].var) = At0(r, pps[i].var)

\* the predecessor: the literals injected, then var := pre where pre >= 0
RegPredecessor(o, r) ==
    LET pps == o.pre_posts
    IN  [v1 \in DOMAIN r |->
            IF \E i \in DOMAIN pps : pps[i].var = v1 - 1 /\ pps[i].pre >= 0
            THEN pps[CHOOSE i \in DOMAIN pps : pps[i].var = v1 - 1 /\ pps[i].pre >= 0].pre
            ELSE RegInjected(o, r)[v1]]

BiPlanReturned ==
    /\ engine = "bidir"
    /\ \/ pc = "ret_bwd_init"
       \/ pc = "ret_end" /\ meeting.have_meeting

\* C31: a plan that bidir_astar returns from a meeting or from the backward
\* search reaching init is applicable step by step from init and ends in a
\* state satisfying the goal, also on tasks with operators that have a
\* prevail or condition on a variable they write.
C31_BiPlanExecutable ==
    BiPlanReturned =>
        LET final == run_plan(T, R.plan, T.init, 1)
        IN  final # <<>> /\ is_goal(T, final)


\* the pairs of a forward node and a backward node whose states meet
MeetingPairs ==
    {p \in (0..(Len(R.nodes) - 1)) \X (0..(Len(back_nodes) - 1)) :
        forward_state_satisfies_reg(At0(R.nodes, p[1]).s, At0(back_nodes, p[2]).s)}

\* C32: at every iteration boundary of the main loop of bidir_astar, for
\* either reopen policy, a recorded meeting is a pair whose forward state
\* satisfies the backward partial state, and best_cost is at most
\* g_f(f) + g_b(b), with the g values now recorded, for every forward node
\* f and backward node b whose states meet.
C32_MeetingIsBest ==
    (engine = "bidir" /\ pc = "loop") =>
        /\ meeting.have_meeting => <<meeting.best_f, meeting.best_b>> \in MeetingPairs
        /\ \A p \in MeetingPairs :
              meeting.best_cost <= At0(meta_fwd, p[1]).g + At0(meta_bwd, p[2]).g


\* C33: when the expansion counter of sequential A* or GBFS exceeds
\* max_expansions before a goal is popped, the engine stops and returns
\* solved = false; the pop that crosses the cap generates no successor, so
\* successors are generated for at most max_expansions popped nodes.
C33_ExpansionCap ==
    /\ [](engine \in {"astar", "gbfs"} =>
            /\ pc = "expand" => R.stats.expanded <= params.max_expansions
            /\ R.stats.expanded > params.max_expansions =>
                  pc \in {"done", "exit101"} /\ ~R.solved /\ R.plan = <<>>
            /\ R.stats.expanded - 1 <= params.max_expansions)
    /\ [][(engine \in {"astar", "gbfs"} /\ R'.stats.expanded > params.max_expansions
             /\ R.stats.expanded <= params.max_expansions)
            => (pc' = "done" /\ R'.nodes = R.nodes /\ R'.stats.generated = R.stats.generated)]_vars

\* an engine has returned because of the cap, with nodes left on open
C33_Witness ==
    /\ engine \in {"astar", "gbfs"} /\ pc = "done"
    /\ R.stats.expanded - 1 = params.max_expansions
    /\ ~R.solved /\ ~OpenEmpty


\* C34: in a parallel run goal_node is written by at most one worker: once
\* a goal id is posted and done is set, no worker overwrites goal_node,
\* under every interleaving; the posted id is that of a node whose stored
\* state satisfies the goal.
C34_GoalPostedOnce ==
    /\ [](engine = "astar_soc" /\ goal_node # UINT64_MAX =>
            goal_node \in DOMAIN store /\ is_goal(T, store[goal_node]))
    /\ [][(engine = "astar_soc" /\ goal_node # UINT64_MAX /\ done) => goal_node' = goal_node]_vars


AllWorkersExited == Workers # {} /\ \A tid \in Workers : wk[tid].pc = "joined"

OpenSlots(v) ==
    {t \in UNION {UNION {{<<f, h, i>> : i \in DOMAIN open.layers_.data_[f].buckets.data_[h]}
                           : h \in DOMAIN open.layers_.data_[f].buckets.data_}
                    : f \in DOMAIN open.layers_.data_} :
        open.layers_.data_[t[1]].buckets.data_[t[2]][t[3]] = v}

\* every node is present in Open and not closed, or absent from Open; an
\* id fills one bucket slot when present and none when absent
OpenOrAbsent ==
    engine = "astar" =>
        \A v \in 0..(Len(R.nodes) - 1) :
            /\ TL_contains(open, v) => (v < Len(meta) /\ ~At0(meta, v).closed)
            /\ Cardinality(OpenSlots(v)) = IF TL_contains(open, v) THEN 1 ELSE 0

\* a node becomes closed only in the pop that extracts it with its current
\* key, and leaves closed only by a strictly smaller g with reopen_closed,
\* which puts it on Open
ClosedChanges ==
    engine = "astar" =>
        \A v \in 0..(Len(meta) - 1) :
            /\ (~At0(meta, v).closed /\ At0(meta', v).closed) =>
                  /\ pc = "loop" /\ ~TL_empty(open)
                  /\ TL_extract_min(open).v = v
                  /\ ~astar_stale(TL_extract_min(open).key, At0(meta, v))
                  /\ ~TL_contains(open', v)
            /\ (At0(meta, v).closed /\ ~At0(meta', v).closed) =>
                  /\ params.reopen_closed
                  /\ At0(meta', v).g < At0(meta, v).g
                  /\ ~TL_contains(open, v) /\ TL_contains(open', v)

\* C36: in sequential integer A* every generated node is either present
\* in Open and not closed, or absent from Open; a node is marked closed
\* only when popped with a current key and returns from closed to Open only
\* by a strict g-improvement with reopen enabled; each id occurs at most
\* once in Open, so insert is never called on a present id.
C36_OpenClosedDiscipline == []OpenOrAbsent /\ [][ClosedChanges]_vars

\* a closed node is back on Open after a reopening, next to another open
\* node
C36_Witness ==
    /\ engine = "astar" /\ params.reopen_closed
    /\ R.stats.expanded > Cardinality({v \in 0..(Len(meta) - 1) : At0(meta, v).closed})
    /\ Cardinality(OpenIds) >= 2


\* the node reached from v by n parent links, or -1 once the root is passed
RECURSIVE Ancestor(_, _, _)
Ancestor(nodes, v, n) ==
    IF v < 0 \/ n = 0 THEN v ELSE Ancestor(nodes, At0(nodes, v).parent, n - 1)

\* the state the actions plan[i..] lead to from s, or <<>> when one of them
\* is not applicable
RECURSIVE strips_run_plan(_, _, _, _)
strips_run_plan(st, plan, s, i) ==
    IF i > Len(plan) THEN s
    ELSE IF ~strips_is_applicable(s, At0(st.actions, plan[i])) THEN <<>>
    ELSE strips_run_plan(st, plan, strips_apply_out(s, At0(st.actions, plan[i])), i + 1)

\* the sum of the costs of the operators (SAS) or actions (STRIPS) of plan
RECURSIVE CostSum(_, _)
CostSum(costs, plan) ==
    IF plan = <<>> THEN 0 ELSE At0(costs, Head(plan)).cost + CostSum(costs, Tail(plan))

SeqSolved == engine \in {"astar", "gbfs", "strips_astar"} /\ pc = "done" /\ R.solved

\* the goal node of a solved run is the node popped last (the root when
\* init is a goal state)
ParentsReachRoot ==
    /\ \E n \in 0..(Len(R.nodes) - 1) :
          Ancestor(R.nodes, cur_u, n) = 0 /\ At0(R.nodes, 0).parent = -1
    /\ \A n \in 1..Len(R.nodes) : Ancestor(R.nodes, cur_u, n) # cur_u

\* C37: whenever sequential A* or GBFS (SAS or STRIPS engine) returns
\* solved = true, the parent links followed from the goal node reach the
\* root without a cycle, the plan is executable from init and ends in a
\* goal state, and plan_cost is the sum of the costs of the plan's
\* operators; also after parent links were re-pointed, with reopen enabled
\* or disabled.
C37_SolvedPlanValid ==
    SeqSolved =>
        /\ ParentsReachRoot
        /\ IF engine = "strips_astar"
           THEN LET final == strips_run_plan(T, R.plan, make_init_state(T), 1)
                IN  /\ final # <<>> /\ strips_is_goal(T, final)
                    /\ final = At0(R.nodes, cur_u).s
                    /\ R.plan_cost = CostSum(T.actions, R.plan)
           ELSE LET final == run_plan(T, R.plan, T.init, 1)
                IN  /\ final # <<>> /\ is_goal(T, final)
                    /\ final = At0(R.nodes, cur_u).s
                    /\ R.plan_cost = CostSum(T.ops, R.plan)

\* the nodes on the parent chain of v
RECURSIVE Chain(_, _)
Chain(nodes, v) == IF v < 0 THEN {} ELSE {v} \cup Chain(nodes, At0(nodes, v).parent)

\* a node c on the chain of the goal node holds a g above the g of its
\* parent plus the cost of its operator: the parent was closed when a
\* g-improvement re-pointed its parent link, and was not reopened
RepointedOnPlan ==
    /\ SeqSolved /\ engine = "astar"
    /\ \E c \in Chain(R.nodes, cur_u) :
          LET v == At0(R.nodes, c).parent
          IN  /\ v > 0 /\ At0(meta, v).closed
              /\ At0(meta, c).g > At0(meta, v).g + At0(T.ops, At0(R.nodes, c).act_id).cost

\* a solved run of the SAS A* without reopening whose plan passes a
\* re-pointed parent link, so that plan_cost is below the g of the goal node
C37_Witness ==
    /\ RepointedOnPlan /\ ~params.reopen_closed
    /\ R.plan_cost < At0(meta, cur_u).g


\* the layers that hold a bucket or whose f bit is set
TL_fs(q) == DOMAIN q.layers_.data_ \cup BS_bits(q.fbits_)

\* the buckets of layer f that hold an id or whose h bit is set
TL_hs(q, f) == DOMAIN TL_layer(q, f).buckets.data_ \cup BS_bits(TL_layer(q, f).hbits)

\* the slots <<f, h, idx>> of all buckets
TL_slots(q) ==
    UNION {UNION {{<<f, h, i>> : i \in DOMAIN TL_bucket(q, f, h)} : h \in TL_hs(q, f)}
             : f \in TL_fs(q)}

TL_present(q) == {v \in Values : TL_contains(q, v)}

\* C38: in every reachable state of TwoLevelBucketPQ, size() is the number
\* of present ids and the total length of all buckets, bit f of the f-bitset
\* is set if and only if some bucket of layer f is non-empty, bit h of the
\* h-bitset of layer f is set if and only if bucket (f, h) is non-empty, and
\* empty() holds exactly when no id is present.
C38_CountAndBits ==
    /\ TL_size(q2) = Cardinality(TL_present(q2))
    /\ TL_size(q2) = Cardinality(TL_slots(q2))
    /\ \A f \in TL_fs(q2) :
          /\ BS_test(q2.fbits_, f) <=> (\E h \in TL_hs(q2, f) : TL_bucket(q2, f, h) # <<>>)
          /\ \A h \in TL_hs(q2, f) :
                BS_test(TL_layer(q2, f).hbits, h) <=> (TL_bucket(q2, f, h) # <<>>)
    /\ TL_empty(q2) <=> (TL_present(q2) = {})

\* an element has just left a bucket that is empty now while another bucket
\* of its layer still holds an id: the h bit is cleared and the f bit stays
C38_Witness ==
    /\ TwoLevel
    /\ qcall.op \in {"extract_min", "remove", "decrease_key", "increase_key"}
    /\ \E f \in TL_fs(q2) : \E h1 \in {unpack_h(k) : k \in PQKeys}, h2 \in TL_hs(q2, f) :
          /\ TL_bucket(q2, f, h1) = <<>> /\ ~BS_test(TL_layer(q2, f).hbits, h1)
          /\ TL_bucket(q2, f, h2) # <<>> /\ BS_test(q2.fbits_, f)
    /\ TL_size(q2) >= 2


\* the ids of the nodes the shards of the shared open list hold
OpenNodeIds ==
    IF shared_open.kind_ = "MultiQueue"
    THEN {n.id : n \in UNION {shared_open.mq_[i] : i \in DOMAIN shared_open.mq_}}
    ELSE {n.id : n \in UNION {shared_open.tlb_[i].store : i \in DOMAIN shared_open.tlb_}}

\* the ids the workers hold from a pop and have not looked up yet
PoppedIds ==
    {wk[tid].item.id : tid \in {t \in Workers : wk[t].pc = "active"}}
    \cup {wk[tid].cur.id : tid \in {t \in Workers : wk[t].pc = "get"}}

\* C39: in parallel A*, under every interleaving, every node id a worker
\* obtains from the shared open list already has its state in the state
\* store (store.put of an id completes before open.push of that id), so
\* store.get never fails for a popped node and no popped node is dropped.
C39_StoredBeforePushed ==
    /\ [](engine = "astar_soc" => (OpenNodeIds \cup PoppedIds) \subseteq DOMAIN store)
    /\ [][\A tid \in Workers :
             (wk[tid].pc = "cb_push" /\ wk'[tid].pc # "cb_push")
                 => (wk[tid].nxt.id \in DOMAIN store /\ wk[tid].nxt.id \in OpenNodeIds')]_vars

\* a worker is about to look up a node another worker generated, while the
\* other worker has stored the state of its next node and not yet pushed it
C39_Witness ==
    /\ engine = "astar_soc"
    /\ \E t1, t2 \in Workers :
          /\ t1 # t2
          /\ wk[t1].pc = "get" /\ wk[t1].cur.id # 0
          /\ wk[t2].pc = "cb_push"
          /\ wk[t2].nxt.id \in DOMAIN store /\ wk[t2].nxt.id \notin OpenNodeIds


\* set_search_cpu_budget was never called, or was last called with a limit
\* that is not positive
NoPositiveLimit == \A c \in fhist : c[1] <= 0

TimeoutReported == fcall.op = "time_exceeded_cpu" /\ fcall.ret = TRUE

\* C40: when no positive CPU limit is in force (set_search_cpu_budget was
\* never called, or was last called with a limit <= 0), time_exceeded_cpu
\* never reports a timeout and never sets g_search_timed_out; a timeout is
\* reported only if a positive limit was set and the CPU time consumed since
\* it was set is at least that limit.
C40_NoLimitNoTimeout ==
    /\ NoPositiveLimit => (~TimeoutReported /\ ~budget.g_search_timed_out)
    /\ TimeoutReported =>
          \E c \in fhist : c[1] > 0 /\ budget.cpu_seconds - c[2] >= c[1]

====
